---- MODULE Spec2Model ----
(***************************************************************************)
(* A model of url2md.  The resource cache: the flat table store            *)
(* (url2md/tsv_manager.py), the typed record (url2md/urlinfo.py) and the   *)
(* cache with its fetch orchestration (url2md/cache.py), under Spec;       *)
(* FetchSpec is Spec without the caller-made record and the outside        *)
(* deletion of a content file; BatchSpec is the batch loop of              *)
(* url2md/fetch.py.  The report (url2md/report.py): the classification of  *)
(* resources to themes under ReportSpec, the grouping of a theme's         *)
(* resources by tag under GroupSpec, the rendered document under           *)
(* DocumentSpec.  The summary path of a record (url2md/cache.py) under     *)
(* SummarySpec and the translation table (url2md/translation_cache.py)     *)
(* under TermSpec.                                                         *)
(*                                                                         *)
(* Strings are sequences of symbols.  A symbol is one character; a run of  *)
(* non-blank characters whose inside no operation looks at (a column name, *)
(* the literal 'success', a file extension) is written as one symbol.      *)
(* The blank characters TAB, LF, CR and SP are always single symbols.      *)
(* A file is NoFile or the sequence of its lines (what readlines()         *)
(* returns, each line without its terminator).                             *)
(***************************************************************************)
EXTENDS Integers, Sequences, FiniteSets, TLC

TAB == "\t"
LF == "\n"
CR == "\r"
SP == " "

\* str.strip() removes these from both ends of a string.
IsSpace(c) == c \in {TAB, LF, CR, SP}

RECURSIVE LStrip(_)
LStrip(s) == IF s # <<>> /\ IsSpace(Head(s)) THEN LStrip(Tail(s)) ELSE s

RECURSIVE RStrip(_)
RStrip(s) ==
  IF s # <<>> /\ IsSpace(s[Len(s)]) THEN RStrip(SubSeq(s, 1, Len(s) - 1)) ELSE s

Strip(s) == RStrip(LStrip(s))

\* str.split(sep) for a one-character separator: "" splits to [""].
RECURSIVE SplitAcc(_, _, _)
SplitAcc(s, sep, cur) ==
  IF s = <<>> THEN <<cur>>
  ELSE IF Head(s) = sep THEN <<cur>> \o SplitAcc(Tail(s), sep, <<>>)
  ELSE SplitAcc(Tail(s), sep, Append(cur, Head(s)))

Split(s, sep) == SplitAcc(s, sep, <<>>)

\* sep.join(fields)
RECURSIVE Join(_, _)
Join(fields, sep) ==
  IF fields = <<>> THEN <<>>
  ELSE IF Len(fields) = 1 THEN fields[1]
  ELSE fields[1] \o <<sep>> \o Join(Tail(fields), sep)

\* str.replace(old, new) for a one-character old; new is a string.
RECURSIVE Replace(_, _, _)
Replace(s, old, new) ==
  IF s = <<>> THEN <<>>
  ELSE (IF Head(s) = old THEN new ELSE <<Head(s)>>) \o Replace(Tail(s), old, new)

\* str.replace('\r\n', ' ')
RECURSIVE ReplaceCRLF(_)
ReplaceCRLF(s) ==
  IF s = <<>> THEN <<>>
  ELSE IF Len(s) >= 2 /\ s[1] = CR /\ s[2] = LF
       THEN <<SP>> \o ReplaceCRLF(SubSeq(s, 3, Len(s)))
  ELSE <<Head(s)>> \o ReplaceCRLF(Tail(s))

\* The index of the first occurrence of pat in s, 0 when there is none.
RECURSIVE FindFrom(_, _, _)
FindFrom(s, pat, i) ==
  IF i + Len(pat) - 1 > Len(s) THEN 0
  ELSE IF SubSeq(s, i, i + Len(pat) - 1) = pat THEN i
  ELSE FindFrom(s, pat, i + 1)

Find(s, pat) == FindFrom(s, pat, 1)

Digits == <<"0", "1", "2", "3", "4", "5", "6", "7", "8", "9">>

\* str(n) for n >= 0
RECURSIVE ToStr(_)
ToStr(n) ==
  IF n < 10 THEN <<Digits[n + 1]>>
  ELSE ToStr(n \div 10) \o <<Digits[(n % 10) + 1]>>

\* str.isdigit()
IsDigit(s) == s # <<>> /\ \A i \in 1..Len(s) : \E d \in 1..10 : s[i] = Digits[d]

DigitVal(c) == (CHOOSE d \in 1..10 : Digits[d] = c) - 1

\* int(s) for a string of digits
RECURSIVE ToInt(_)
ToInt(s) ==
  IF s = <<>> THEN 0
  ELSE 10 * ToInt(SubSeq(s, 1, Len(s) - 1)) + DigitVal(s[Len(s)])

\* tsv_manager.sanitize_tsv_field
sanitize_tsv_field(value) ==
  Replace(Replace(Replace(ReplaceCRLF(value), CR, <<SP>>), LF, <<SP>>), TAB, <<SP>>)

(***************************************************************************)
(* urlinfo.URLInfo                                                         *)
(***************************************************************************)

\* hashlib.md5(url).hexdigest(): a run of non-blank symbols determined by url.
Digest(url) == <<"md5">> \o url

\* str.lower() on the host symbols the model uses.
Lower(c) == IF c = "A" THEN "a" ELSE IF c = "B" THEN "b" ELSE c

\* urlparse(url).netloc.lower(): what stands between "//" and the next "/".
Netloc(url) ==
  LET i == Find(url, <<"//">>)
      rest == SubSeq(url, i + 1, Len(url))
      j == Find(rest, <<"/">>)
      host == IF j = 0 THEN rest ELSE SubSeq(rest, 1, j - 1)
  IN IF i = 0 THEN <<>> ELSE [k \in 1..Len(host) |-> Lower(host[k])]

\* URLInfo(...) with __post_init__: hash and domain are derived from url.
URLInfo(url, filename, fetch_date, status, content_type, size, error) ==
  [url |-> url, hash |-> Digest(url), filename |-> filename,
   fetch_date |-> fetch_date, status |-> status,
   content_type |-> content_type, size |-> size, error |-> error,
   domain |-> IF url = <<>> THEN <<>> ELSE Netloc(url)]

\* URLInfo.to_tsv_line
to_tsv_line(r) ==
  LET safe_error == Replace(Replace(Replace(r.error, TAB, <<SP>>), LF, <<SP>>), CR, <<>>)
  IN Join(<<r.url, r.hash, r.filename, r.fetch_date, r.status,
            r.content_type, ToStr(r.size), safe_error>>, TAB)

\* The test as it would be if the error column were required.
CanParseStrict(line) == Len(Split(Strip(line), TAB)) >= 8

\* URLInfo.from_tsv_line raises ValueError unless this holds.
CanParse(line) == Len(Split(Strip(line), TAB)) >= 7

\* from_tsv_line as it would be if it kept the hash that __post_init__ derives.
from_tsv_line_rederived(line) ==
  LET parts == Split(Strip(line), TAB)
      error == IF Len(parts) > 7 THEN parts[8] ELSE <<>>
  IN URLInfo(parts[1], parts[3], parts[4], parts[5], parts[6],
             IF IsDigit(parts[7]) THEN ToInt(parts[7]) ELSE 0, error)

\* URLInfo.from_tsv_line, for a line that parses: the hash column overrides
\* the hash computed from the url.
from_tsv_line(line) ==
  LET parts == Split(Strip(line), TAB)
      error == IF Len(parts) > 7 THEN parts[8] ELSE <<>>
      instance == URLInfo(parts[1], parts[3], parts[4], parts[5], parts[6],
                          IF IsDigit(parts[7]) THEN ToInt(parts[7]) ELSE 0, error)
  IN [instance EXCEPT !.hash = parts[2]]

(***************************************************************************)
(* tsv_manager.TSVManager and cache.Cache: the table                       *)
(***************************************************************************)

\* A path of the file system: absent, or a file holding these lines.
NoFile == [exists |-> FALSE, lines |-> <<>>]
File(lines) == [exists |-> TRUE, lines |-> lines]

\* TSVManager.load: the header and the rows read from a file.
RECURSIVE ReadRows(_)
ReadRows(lines) ==
  IF lines = <<>> THEN <<>>
  ELSE (IF Strip(Head(lines)) # <<>> THEN <<Split(Strip(Head(lines)), TAB)>> ELSE <<>>)
       \o ReadRows(Tail(lines))

TSVLoad(file) ==
  IF ~file.exists \/ file.lines = <<>> THEN [header |-> <<>>, data |-> <<>>]
  ELSE [header |-> Split(Strip(file.lines[1]), TAB),
        data |-> ReadRows(Tail(file.lines))]

\* The lines TSVManager.save writes to the temporary file.
TSVLines(hdr, rows) ==
  (IF hdr # <<>>
     THEN <<Join([i \in 1..Len(hdr) |-> sanitize_tsv_field(hdr[i])], TAB)>>
     ELSE <<>>)
  \o [k \in 1..Len(rows) |->
        Join([i \in 1..Len(rows[k]) |-> sanitize_tsv_field(rows[k][i])], TAB)]

\* Cache.load pads a row of at least 7 columns to 8, in place.
RECURSIVE PadRow(_)
PadRow(row) == IF Len(row) < 8 THEN PadRow(Append(row, <<>>)) ELSE row

PadRows(rows) ==
  [k \in 1..Len(rows) |-> IF Len(rows[k]) >= 7 THEN PadRow(rows[k]) ELSE rows[k]]

\* A list append in place of the dict assignment.
PutAppend(es, r) == Append(es, r)

\* dict assignment self._entries[url] = url_info: the map keeps insertion
\* order, an existing key keeps its place.
Put(es, r) ==
  IF \E i \in 1..Len(es) : es[i].url = r.url
    THEN [i \in 1..Len(es) |-> IF es[i].url = r.url THEN r ELSE es[i]]
    ELSE Append(es, r)

\* dict.get(url): the index of url's record, 0 when there is none.
IndexOf(es, url) ==
  IF \E i \in 1..Len(es) : es[i].url = url
    THEN CHOOSE i \in 1..Len(es) : es[i].url = url
    ELSE 0

\* Cache.load, the loop over self.data that fills self._entries.
RECURSIVE LoadEntries(_, _)
LoadEntries(rows, es) ==
  IF rows = <<>> THEN es
  ELSE LET row == Head(rows)
           line == Join(PadRow(row), TAB)
       IN IF Len(row) >= 7 /\ CanParse(line)
            THEN LoadEntries(Tail(rows), Put(es, from_tsv_line(line)))
            ELSE LoadEntries(Tail(rows), es)

HEADER == <<<<"url">>, <<"hash">>, <<"filename">>, <<"fetch_date">>,
            <<"status">>, <<"content_type">>, <<"size">>, <<"error">>>>

\* Cache.save, the rows prepared from self._entries.
SaveRows(es) == [k \in 1..Len(es) |-> Split(to_tsv_line(es[k]), TAB)]

(***************************************************************************)
(* Bounds and inputs                                                       *)
(***************************************************************************)

\* The number of operations a behaviour starts.
MaxOps == 3
\* The default of throttle_seconds.
ThrottleSeconds == 5

U1 == <<"h:", "//", "a", "/", "1">>
U2 == <<"h:", "//", "a", "/", "2">>
Urls == {U1, U2}

HTML == <<"text/html">>
PLAIN == <<"text/plain">>
\* A type mimetypes does not know.
UNKNOWN == <<"x/y">>
\* The Content-Type header of a response; empty when the header is missing.
ContentTypes == {HTML, PLAIN, UNKNOWN, <<>>}
Bodies == {<<"x", "y">>}

\* The seconds that may pass between two operations.
Ticks == {2, ThrottleSeconds}

\* throttle_seconds, as the caller may pass it
Throttles == {0, ThrottleSeconds}

ATHTTP == <<SP, "a", "t", SP, "h", "t", "t", "p">>
Messages == {<<"e", SP>>, <<"e">> \o ATHTTP \o <<"x">> \o ATHTTP,
             <<"a", TAB, "b", LF, "c", CR, "d">>}

SUCCESS == <<"success">>
ERROR == <<"error">>

\* mimetypes.guess_extension for the content types of the model
guess_extension(ct) ==
  IF ct = HTML THEN <<".html">> ELSE IF ct = PLAIN THEN <<".txt">> ELSE <<>>

F1 == Digest(U1) \o <<".html">>

\* The directories a cache may be opened on: a fresh one, and one left by an
\* earlier version and by hand: a 7-column row, a row that is too short, a
\* row whose hash column is not the digest of its url.
LegacyTable ==
  File(<<Join(HEADER, TAB),
         Join(<<U1, Digest(U1), F1, <<"0">>, SUCCESS, HTML, <<"2">>>>, TAB),
         Join(<<U2, <<"x">>, <<"y">>>>, TAB),
         Join(<<U2, <<"beef">>, <<>>, <<"0">>, ERROR, <<>>, <<"0">>, <<"e">>>>, TAB)>>)

InitDisks == {[table |-> NoFile, content |-> {}],
              [table |-> LegacyTable, content |-> {F1}]}

(***************************************************************************)
(* State                                                                   *)
(***************************************************************************)

VARIABLES
  entries,              \* Cache._entries, in insertion order
  header,               \* TSVManager.header
  data,                 \* TSVManager.data
  domain_access_times,  \* Cache._domain_access_times
  table,                \* the file cache.tsv
  temp,                 \* the file cache.tmp
  content,              \* the names of the files in content/
  now,                  \* datetime.now(), in seconds
  pc,                   \* where the running operation stands
  info,                 \* fetch_and_cache_url's url_info
  aliased,              \* url_info is the object held by _entries
  pending,              \* the CacheResult the operation returns after save()
  result,               \* what the step just taken returned, if it returned
  call,                 \* the operation started last: its arguments, what was raised
  fetches,              \* how many times the call invoked fetch_content
  savePrev,             \* cache.tsv as it was when save() began
  callTable,            \* cache.tsv as it was when the call began
  callInfo,             \* url's record as it was when the call began
  partial,              \* urls whose record an interrupted call left changed
  ops,                  \* the number of operations started
  url_summary,          \* report: the summary of a resource
  themes,               \* report: the themes, in the order supplied
  theme_weights,        \* report: the caller's weight map
  answer,               \* report: what the function called last returned
  url_summaries,        \* report: the summaries {url: summary}, in insertion order
  urls_with_scores,     \* report: the (url, score) pairs of a theme
  theme_tag_list,       \* report: the tags of a theme (theme_tags)
  tag_groups,           \* report: what group_urls_by_tag_in_theme returned
  url_classifications,  \* report: what classify_all_urls returned
  theme_subsections,    \* report: the themes to be given subsections
  lines,                \* report: the lines of the Markdown report
  url_info,             \* get_summary_path's argument
  summary_dir,          \* the directory summary/ exists
  summary_path,         \* what get_summary_path returned
  translations,         \* TranslationCache._translations, in insertion order
  terms_header,         \* TranslationCache's TSVManager.header
  terms_data,           \* TranslationCache's TSVManager.data
  terms,                \* the file terms.tsv
  terms_saved,          \* _translations as it was when terms.tsv was saved
  term_ops,             \* the number of operations on the translation cache
  written,              \* the names of the content files whose body was written whole
  batch                 \* fetch_urls: its arguments and where its loop stands

vars == <<entries, header, data, domain_access_times, table, temp, content,
          now, pc, info, aliased, pending, result, call, fetches,
          savePrev, callTable, callInfo, partial, ops,
          url_summary, themes, theme_weights, answer,
          url_summaries, urls_with_scores, theme_tag_list, tag_groups,
          url_classifications, theme_subsections, lines,
          url_info, summary_dir, summary_path,
          translations, terms_header, terms_data, terms, terms_saved, term_ops,
          written, batch>>

process == <<entries, header, data, domain_access_times, table, temp, content,
             now, pc, info, aliased, pending, result, call, fetches,
             savePrev, callTable, callInfo, partial, ops>>
cache == <<process, written, batch>>
report == <<url_summary, themes, theme_weights, answer>>
grouping == <<urls_with_scores, theme_tag_list, tag_groups>>
document == <<url_classifications, theme_subsections, lines>>
paths == <<url_info, summary_dir, summary_path>>
termtable == <<translations, terms_header, terms_data, terms, terms_saved, term_ops>>
offBatch == <<report, url_summaries, grouping, document, paths, termtable>>
offWrite == <<offBatch, batch>>
offCache == <<offWrite, written>>
offReport == <<cache, url_summaries, grouping, document, paths, termtable>>
memory == <<entries, header, data, domain_access_times>>
disk == <<table, temp, content>>
locals == <<info, aliased, pending>>
ghosts == <<savePrev, callTable, callInfo, partial>>

NoInfo == URLInfo(<<>>, <<>>, <<>>, <<>>, <<>>, 0, <<>>)
NoResult == [kind |-> "none", success |-> FALSE, downloaded |-> FALSE]
\* CacheResult(success, url_info, downloaded) of a call that skipped or fetches
CacheResult(kind, ok, dl) == [kind |-> kind, success |-> ok, downloaded |-> dl]
SaveDone == [kind |-> "save", success |-> TRUE, downloaded |-> FALSE]
Interrupted == [kind |-> "interrupt", success |-> FALSE, downloaded |-> FALSE]
Called(op) == [op |-> op, url |-> <<>>, throttle |-> 0, msg |-> <<>>]
NoCall == Called("none")

\* The load as it would be if a row that is too short were fatal.
LoadedAllOrNothing(file) ==
  LET t == TSVLoad(file)
  IN [header |-> t.header, data |-> PadRows(t.data),
      entries |-> IF \E k \in 1..Len(t.data) : Len(t.data[k]) < 7
                    THEN <<>> ELSE LoadEntries(t.data, <<>>)]

\* Cache.__init__ on a directory: TSVManager.load, then Cache.load.
Loaded(file) ==
  LET t == TSVLoad(file)
  IN [header |-> t.header, data |-> PadRows(t.data),
      entries |-> LoadEntries(t.data, <<>>)]

\* The cache after construction on one of the directories.
CacheInit ==
  /\ \E d \in InitDisks :
       /\ table = d.table
       /\ content = d.content
       /\ entries = Loaded(d.table).entries
       /\ header = Loaded(d.table).header
       /\ data = Loaded(d.table).data
  /\ domain_access_times = <<>>
  /\ temp = NoFile
  /\ now = 0
  /\ pc = "idle"
  /\ info = NoInfo
  /\ aliased = FALSE
  /\ pending = NoResult
  /\ result = NoResult
  /\ call = NoCall
  /\ fetches = 0
  /\ savePrev = NoFile
  /\ callTable = NoFile
  /\ callInfo = NoInfo
  /\ partial = {}
  /\ ops = 0
  /\ written = content
  /\ batch = [phase |-> "none"]

\* No report is being made.
NoDocument ==
  /\ url_summaries = <<>>
  /\ urls_with_scores = <<>>
  /\ theme_tag_list = <<>>
  /\ tag_groups = [op |-> "none"]
  /\ url_classifications = [op |-> "none"]
  /\ theme_subsections = {}
  /\ lines = [op |-> "none"]

\* No summary path is asked for.
NoSummary ==
  /\ url_info = NoInfo
  /\ summary_dir = FALSE
  /\ summary_path = [op |-> "none"]

\* The translation cache of a new directory.
NoTranslation ==
  /\ translations = <<>>
  /\ terms_header = <<>>
  /\ terms_data = <<>>
  /\ terms = NoFile
  /\ terms_saved = [saved |-> FALSE, map |-> <<>>]
  /\ term_ops = 0

\* A cache process calls nothing of the report.
Init ==
  /\ CacheInit
  /\ url_summary = [has_tags |-> FALSE, tags |-> <<>>]
  /\ themes = <<>>
  /\ theme_weights = [none |-> TRUE, map |-> <<>>]
  /\ answer = [op |-> "none"]
  /\ NoDocument
  /\ NoSummary
  /\ NoTranslation

(***************************************************************************)
(* cache.Cache                                                             *)
(***************************************************************************)

\* add as it would be if it only recorded the access time.
AddTimeOnly(es, dat, r, t) ==
  [entries |-> es,
   times |-> IF r.domain # <<>>
               THEN [d \in DOMAIN dat \cup {r.domain} |->
                       IF d = r.domain THEN t ELSE dat[d]]
               ELSE dat]

\* Cache.add
Add(es, dat, r, t) ==
  [entries |-> Put(es, r),
   times |-> IF r.domain # <<>>
               THEN [d \in DOMAIN dat \cup {r.domain} |->
                       IF d = r.domain THEN t ELSE dat[d]]
               ELSE dat]

\* The test as it would be without the look at the content file.
AlreadyCachedByStatus(r, files) == r.status = SUCCESS /\ r.filename # <<>>

\* The test as it would be if the content file were looked for in the wrong place.
AlreadyCachedNever(r, files) ==
  r.status = SUCCESS /\ r.filename # <<>> /\ r.filename \in {}

\* The test of fetch_and_cache_url for a record that is already cached.
AlreadyCached(r, files) ==
  r.status = SUCCESS /\ r.filename # <<>> /\ r.filename \in files

\* The throttle as it would be if it never slept.
wait_for_domain_throttle_nosleep(dat, domain, wait_seconds, t) == t

\* Cache.wait_for_domain_throttle: the time at which it returns.
wait_for_domain_throttle(dat, domain, wait_seconds, t) ==
  IF domain \in DOMAIN dat /\ t - dat[domain] < wait_seconds
    THEN dat[domain] + wait_seconds
    ELSE t

\* Cache.find_available_filename: the name it assigns.
RECURSIVE ProbeName(_, _, _, _)
ProbeName(hash, extension, counter, files) ==
  LET filename == hash \o <<"-">> \o ToStr(counter) \o extension
  IN IF filename \notin files THEN filename
     ELSE ProbeName(hash, extension, counter + 1, files)

\* The name as it would be assigned without looking at the directory.
find_available_filename_unprobed(r, files) ==
  LET ext == IF r.content_type # <<>> THEN guess_extension(r.content_type) ELSE <<>>
      extension == IF ext # <<>> THEN ext ELSE <<".html">>
  IN r.hash \o extension

find_available_filename(r, files) ==
  LET ext == IF r.content_type # <<>> THEN guess_extension(r.content_type) ELSE <<>>
      extension == IF ext # <<>> THEN ext ELSE <<".html">>
      filename == r.hash \o extension
  IN IF filename \notin files THEN filename
     ELSE ProbeName(r.hash, extension, 1, files)

\* The content type without its parameters: split(';')[0].strip()
CleanContentType(ct) ==
  IF ct # <<>> /\ Find(ct, <<";">>) # 0 THEN Strip(Split(ct, ";")[1]) ELSE ct

\* The message as it would be kept without the cut.
ErrorMessageUncut(msg) == msg

\* The message kept for a failed fetch: cut at " at http".
ErrorMessage(msg) ==
  IF Find(msg, ATHTTP) # 0 THEN SubSeq(msg, 1, Find(msg, ATHTTP) - 1) ELSE msg

\* An assignment to a field of url_info changes the record held by the map
\* when url_info is that record.
Assign(newinfo) ==
  /\ info' = newinfo
  /\ entries' = IF aliased THEN Put(entries, newinfo) ELSE entries

(***************************************************************************)
(* fetch_and_cache_url, step by step.  The steps end where the call can be *)
(* interrupted or the process can die with a different state left behind.  *)
(***************************************************************************)

\* Lines 185-206: the cached record is returned, or url_info is chosen.
Begin(url, throttle_seconds) ==
  /\ pc = "idle"
  /\ ops < MaxOps
  /\ ops' = ops + 1
  /\ UNCHANGED offCache
  /\ LET i == IndexOf(entries, url)
         r == IF i # 0 THEN entries[i]
              ELSE URLInfo(url, <<>>, <<>>, <<>>, <<>>, 0, <<>>)
     IN IF i # 0 /\ AlreadyCached(entries[i], content)
          THEN /\ result' = CacheResult("skip", TRUE, FALSE)
               /\ call' = [op |-> "fetch_and_cache_url", url |-> url,
                           throttle |-> throttle_seconds, msg |-> <<>>]
               /\ fetches' = 0
               /\ callTable' = table
               /\ callInfo' = entries[i]
               /\ UNCHANGED <<memory, disk, now, pc, locals, savePrev, partial>>
          ELSE /\ info' = r
               /\ aliased' = (i # 0)
               /\ pc' = "throttle"
               /\ fetches' = 0
               /\ result' = NoResult
               /\ call' = [op |-> "fetch_and_cache_url", url |-> url,
                           throttle |-> throttle_seconds, msg |-> <<>>]
               /\ callTable' = table
               /\ callInfo' = r
               /\ UNCHANGED <<memory, disk, now, pending, savePrev, partial>>

\* Lines 208-210: the throttle wait is over.
Throttle ==
  /\ UNCHANGED <<ops, offCache>>
  /\ pc = "throttle"
  /\ now' = IF info.domain # <<>>
              THEN wait_for_domain_throttle(domain_access_times, info.domain,
                                            call.throttle, now)
              ELSE now
  /\ pc' = "fetch"
  /\ UNCHANGED <<memory, disk, locals, result, call, fetches, ghosts>>

\* fetch_content got its response and has set url_info.content_type.
FetchRespond(ct) ==
  /\ UNCHANGED <<ops, offCache>>
  /\ pc = "fetch"
  /\ Assign([info EXCEPT !.content_type = ct])
  /\ fetches' = fetches + 1
  /\ pc' = "respond"
  /\ UNCHANGED <<header, data, domain_access_times, disk, now, aliased,
                 pending, result, call, ghosts>>

\* fetch_content raised: lines 249-261, up to the call of save().
FetchRaise(msg) ==
  /\ UNCHANGED <<ops, offCache>>
  /\ pc = "fetch"
  /\ LET r == [info EXCEPT !.error = ErrorMessage(msg), !.status = ERROR,
                           !.fetch_date = ToStr(now)]
         a == Add(entries, domain_access_times, r, now)
     IN /\ info' = r
        /\ entries' = a.entries
        /\ domain_access_times' = a.times
  /\ aliased' = TRUE
  /\ fetches' = fetches + 1
  /\ pending' = CacheResult("fetch", FALSE, FALSE)
  /\ call' = [call EXCEPT !.msg = msg]
  /\ partial' = partial \ {info.url}
  /\ pc' = "save"
  /\ UNCHANGED <<header, data, disk, now, result, savePrev, callTable, callInfo>>

\* The files written whole as they would be if the body were not written.
WrittenNot(files, filename) == files

\* Lines 228-233: the body is written to the file and the file is closed.
Written(files, filename) == files \cup {filename}

\* fetch_content returned: lines 215-226, the content file is open for writing.
FetchReturn ==
  /\ UNCHANGED <<ops, offWrite>>
  /\ pc = "respond"
  /\ LET r1 == [info EXCEPT !.fetch_date = ToStr(now),
                            !.content_type = CleanContentType(info.content_type)]
         r2 == [r1 EXCEPT !.filename = find_available_filename(r1, content)]
     IN /\ Assign(r2)
        /\ content' = content \cup {r2.filename}
        /\ written' = written \ {r2.filename}
  /\ pc' = "write"
  /\ UNCHANGED <<header, data, domain_access_times, table, temp, now, aliased,
                 pending, result, call, fetches, ghosts>>

\* Lines 227-236: the body is written, the record is added.
WriteContent(body) ==
  /\ UNCHANGED <<ops, offWrite>>
  /\ pc = "write"
  /\ written' = Written(written, info.filename)
  /\ LET r == [info EXCEPT !.size = Len(body), !.status = SUCCESS]
         a == Add(entries, domain_access_times, r, now)
     IN /\ info' = r
        /\ entries' = a.entries
        /\ domain_access_times' = a.times
  /\ aliased' = TRUE
  /\ pending' = CacheResult("fetch", TRUE, TRUE)
  /\ partial' = partial \ {info.url}
  /\ pc' = "save"
  /\ UNCHANGED <<header, data, disk, now, result, call, fetches,
                 savePrev, callTable, callInfo>>

\* The caller cancels the call during the throttle wait or the fetch.
Interrupt ==
  /\ UNCHANGED <<ops, offCache>>
  /\ pc \in {"throttle", "fetch", "respond", "write"}
  /\ pc' = "idle"
  /\ result' = Interrupted
  /\ partial' = IF aliased /\ info # callInfo THEN partial \cup {info.url} ELSE partial
  /\ info' = NoInfo
  /\ aliased' = FALSE
  /\ UNCHANGED <<memory, disk, now, pending, call, fetches, savePrev,
                 callTable, callInfo>>

(***************************************************************************)
(* save()                                                                  *)
(***************************************************************************)

\* A caller's cache.save()
Save ==
  /\ pc = "idle"
  /\ ops < MaxOps
  /\ ops' = ops + 1
  /\ UNCHANGED offCache
  /\ pc' = "save"
  /\ pending' = SaveDone
  /\ result' = NoResult
  /\ call' = Called("save")
  /\ fetches' = 0
  /\ callTable' = NoFile
  /\ callInfo' = NoInfo
  /\ UNCHANGED <<memory, disk, now, info, aliased, savePrev, partial>>

\* Cache.save lines 98-105 and TSVManager.save lines 67-77: the rows are
\* prepared and written to the temporary file.
SaveTemp ==
  /\ UNCHANGED <<ops, offCache>>
  /\ pc = "save"
  /\ header' = HEADER
  /\ data' = SaveRows(entries)
  /\ temp' = File(TSVLines(HEADER, SaveRows(entries)))
  /\ savePrev' = table
  /\ pc' = "unlink"
  /\ UNCHANGED <<entries, domain_access_times, table, content, now, locals,
                 result, call, fetches, callTable, callInfo, partial>>

\* TSVManager.save lines 80-81
SaveUnlink ==
  /\ UNCHANGED <<ops, offCache>>
  /\ pc = "unlink"
  /\ table' = IF table.exists THEN NoFile ELSE table
  /\ pc' = "rename"
  /\ UNCHANGED <<memory, temp, content, now, locals, result, call, fetches, ghosts>>

\* TSVManager.save line 82, and the operation returns.
SaveRename ==
  /\ UNCHANGED <<ops, offCache>>
  /\ pc = "rename"
  /\ table' = temp
  /\ temp' = NoFile
  /\ pc' = "idle"
  /\ result' = pending
  /\ pending' = NoResult
  /\ info' = NoInfo
  /\ aliased' = FALSE
  /\ savePrev' = NoFile
  /\ UNCHANGED <<memory, content, now, call, fetches, callTable, callInfo, partial>>

(***************************************************************************)
(* The other operations and the environment                                *)
(***************************************************************************)

\* A caller's cache.add(URLInfo(...)) of a record it made.
AddRecord(url) ==
  /\ pc = "idle"
  /\ ops < MaxOps
  /\ ops' = ops + 1
  /\ UNCHANGED offCache
  /\ LET r == URLInfo(url, Digest(url) \o <<".html">>, ToStr(now), SUCCESS,
                      HTML, 2, <<>>)
         a == Add(entries, domain_access_times, r, now)
     IN /\ entries' = a.entries
        /\ domain_access_times' = a.times
  /\ result' = NoResult
  /\ call' = [Called("add") EXCEPT !.url = url]
  /\ fetches' = 0
  /\ partial' = partial \ {url}
  /\ callTable' = NoFile
  /\ callInfo' = NoInfo
  /\ UNCHANGED <<header, data, disk, now, pc, locals, savePrev>>

\* A caller's cache.load()
Load ==
  /\ pc = "idle"
  /\ ops < MaxOps
  /\ ops' = ops + 1
  /\ UNCHANGED offCache
  /\ entries' = Loaded(table).entries
  /\ header' = Loaded(table).header
  /\ data' = Loaded(table).data
  /\ result' = NoResult
  /\ call' = Called("load")
  /\ fetches' = 0
  /\ partial' = {}
  /\ callTable' = NoFile
  /\ callInfo' = NoInfo
  /\ UNCHANGED <<domain_access_times, disk, now, pc, locals, savePrev>>

\* The process ends, at any step, and a new one opens the cache: Cache(dir).
Restart ==
  /\ ops < MaxOps
  /\ ops' = ops + 1
  /\ UNCHANGED offCache
  /\ entries' = Loaded(table).entries
  /\ header' = Loaded(table).header
  /\ data' = Loaded(table).data
  /\ domain_access_times' = <<>>
  /\ pc' = "idle"
  /\ info' = NoInfo
  /\ aliased' = FALSE
  /\ pending' = NoResult
  /\ result' = NoResult
  /\ call' = Called("Cache")
  /\ fetches' = 0
  /\ savePrev' = NoFile
  /\ callTable' = NoFile
  /\ callInfo' = NoInfo
  /\ partial' = {}
  /\ UNCHANGED <<disk, now>>

\* A content file is removed from outside the program.
DeleteContent(f) ==
  /\ pc = "idle"
  /\ ops < MaxOps
  /\ ops' = ops + 1
  /\ UNCHANGED offCache
  /\ f \in content
  /\ content' = content \ {f}
  /\ result' = NoResult
  /\ call' = Called("none")
  /\ fetches' = 0
  /\ callTable' = NoFile
  /\ callInfo' = NoInfo
  /\ UNCHANGED <<memory, table, temp, now, pc, locals, savePrev, partial>>

\* Time passes between two operations.
Tick(dt) ==
  /\ pc = "idle"
  /\ ops < MaxOps
  /\ ops' = ops + 1
  /\ UNCHANGED offCache
  /\ now' = now + dt
  /\ result' = NoResult
  /\ call' = Called("none")
  /\ fetches' = 0
  /\ callTable' = NoFile
  /\ callInfo' = NoInfo
  /\ UNCHANGED <<memory, disk, pc, locals, savePrev, partial>>

Next ==
  \/ \E url \in Urls, t \in Throttles : Begin(url, t)
  \/ Throttle
  \/ \E ct \in ContentTypes : FetchRespond(ct)
  \/ \E msg \in Messages : FetchRaise(msg)
  \/ FetchReturn
  \/ \E body \in Bodies : WriteContent(body)
  \/ Interrupt
  \/ Save
  \/ SaveTemp
  \/ SaveUnlink
  \/ SaveRename
  \/ \E url \in Urls : AddRecord(url)
  \/ Load
  \/ Restart
  \/ \E f \in content : DeleteContent(f)
  \/ \E dt \in Ticks : Tick(dt)

Spec == Init /\ [][Next]_vars

(***************************************************************************)
(* url2md/report.py: the classification of a resource to a theme.          *)
(*                                                                         *)
(* A float is kept as the exact fraction n/d in lowest terms with d > 0;   *)
(* the rounding of float arithmetic is not modelled.  d = 0 stands for a   *)
(* ZeroDivisionError raised by a division.  A tag is a string of           *)
(* characters, a theme name is one opaque symbol.                          *)
(***************************************************************************)

RECURSIVE GCD(_, _)
GCD(a, b) == IF b = 0 THEN a ELSE GCD(b, a % b)

Abs(n) == IF n < 0 THEN -n ELSE n

Raised == [n |-> 0, d |-> 0]

\* n / d
Frac(n, d) ==
  IF d = 0 THEN Raised
  ELSE LET g == GCD(Abs(n), d) IN [n |-> n \div g, d |-> d \div g]

Zero == Frac(0, 1)
One == Frac(1, 1)

FAdd(x, y) ==
  IF x.d = 0 \/ y.d = 0 THEN Raised ELSE Frac(x.n * y.d + y.n * x.d, x.d * y.d)

FMul(x, y) == IF x.d = 0 \/ y.d = 0 THEN Raised ELSE Frac(x.n * y.n, x.d * y.d)

\* x > y
FGt(x, y) == x.n * y.d > y.n * x.d

\* a in b, for strings
Contains(b, a) == Find(b, a) # 0

\* The weight as it would be with the lengths of the division swapped.
calculate_tag_match_weight_swapped(url_tag, theme_tag) ==
  IF url_tag = theme_tag THEN One
  ELSE IF Contains(theme_tag, url_tag) THEN Frac(Len(theme_tag), Len(url_tag))
  ELSE IF Contains(url_tag, theme_tag) THEN Frac(Len(url_tag), Len(theme_tag))
  ELSE Zero

\* report.calculate_tag_match_weight
calculate_tag_match_weight(url_tag, theme_tag) ==
  IF url_tag = theme_tag THEN One
  ELSE IF Contains(theme_tag, url_tag) THEN Frac(Len(url_tag), Len(theme_tag))
  ELSE IF Contains(url_tag, theme_tag) THEN Frac(Len(theme_tag), Len(url_tag))
  ELSE Zero

\* classify_url_to_theme lines 104-107: the inner loop over the theme's tags.
RECURSIVE ScoreThemeTags(_, _, _)
ScoreThemeTags(url_tag, theme_tags, theme_score) ==
  IF theme_tags = <<>> THEN theme_score
  ELSE LET match_weight == calculate_tag_match_weight(url_tag, Head(theme_tags))
       IN ScoreThemeTags(url_tag, Tail(theme_tags),
            IF match_weight.d = 0 \/ theme_score.d = 0 THEN Raised
            ELSE IF FGt(match_weight, Zero) THEN FAdd(theme_score, match_weight)
            ELSE theme_score)

\* Lines 103-107: the loop over the resource's tags.
RECURSIVE ScoreUrlTags(_, _, _)
ScoreUrlTags(url_tags, theme_tags, theme_score) ==
  IF url_tags = <<>> THEN theme_score
  ELSE ScoreUrlTags(Tail(url_tags), theme_tags,
                    ScoreThemeTags(Head(url_tags), theme_tags, theme_score))

\* The greatest match weight of url_tag against the theme's tags.
RECURSIVE BestPair(_, _, _)
BestPair(url_tag, theme_tags, best) ==
  IF theme_tags = <<>> THEN best
  ELSE LET w == calculate_tag_match_weight(url_tag, Head(theme_tags))
       IN BestPair(url_tag, Tail(theme_tags), IF FGt(w, best) THEN w ELSE best)

RECURSIVE SumBestPairs(_, _)
SumBestPairs(url_tags, theme_tags) ==
  IF url_tags = <<>> THEN Zero
  ELSE FAdd(BestPair(Head(url_tags), theme_tags, Zero),
            SumBestPairs(Tail(url_tags), theme_tags))

\* The score as it would be if only the best pair of each tag counted.
ThemeScoreBestPair(url_tags, theme_data) == SumBestPairs(url_tags, theme_data.tags)

\* Lines 101-107: theme_score before the weight is applied.
ThemeScore(url_tags, theme_data) == ScoreUrlTags(url_tags, theme_data.tags, Zero)

\* The weight as it would be applied if a theme's own weight were used
\* when the map has none for its name.
ApplyWeightDeclared(theme_score, theme_data, tw) ==
  IF ~tw.none /\ DOMAIN tw.map # {} /\ theme_data.name \in DOMAIN tw.map
    THEN FMul(theme_score, tw.map[theme_data.name])
    ELSE IF theme_data.has_weight THEN FMul(theme_score, theme_data.weight)
    ELSE theme_score

\* Lines 110-111: theme_weights is None, or a dict, empty or not.
ApplyWeight(theme_score, theme_data, tw) ==
  IF ~tw.none /\ DOMAIN tw.map # {} /\ theme_data.name \in DOMAIN tw.map
    THEN FMul(theme_score, tw.map[theme_data.name])
    ELSE theme_score

\* The test as it would be with >= in place of >.
BetterOrEqual(theme_score, best_score) == ~FGt(best_score, theme_score)

\* Line 114
Better(theme_score, best_score) == FGt(theme_score, best_score)

None == "None"
Unclassified == [theme |-> None, score |-> Zero]

\* Lines 97-116: the loop over the themes; best is (best_theme, best_score).
RECURSIVE BestTheme(_, _, _, _)
BestTheme(url_tags, ths, tw, best) ==
  IF ths = <<>> THEN best
  ELSE LET theme_data == Head(ths)
           theme_score == ApplyWeight(ThemeScore(url_tags, theme_data), theme_data, tw)
       IN BestTheme(url_tags, Tail(ths), tw,
            IF best.score.d = 0 THEN best
            ELSE IF theme_score.d = 0 THEN [theme |-> None, score |-> Raised]
            ELSE IF Better(theme_score, best.score)
                   THEN [theme |-> theme_data.name, score |-> theme_score]
            ELSE best)

\* report.classify_url_to_theme
classify_url_to_theme(summary, ths, tw) ==
  LET url_tags == IF summary.has_tags THEN summary.tags ELSE <<>>
  IN IF url_tags = <<>> THEN Unclassified
     ELSE BestTheme(url_tags, ths, tw, Unclassified)

\* classify_all_urls lines 139-144: only the name and the tags are kept.
KeptThemes(ths) ==
  [k \in 1..Len(ths) |-> [name |-> ths[k].name, tags |-> ths[k].tags,
                          has_weight |-> FALSE, weight |-> One]]

\* Lines 136-147: the map with 1.0 for every theme name it lacked.
FilledWeights(ths, tw) ==
  LET names == {ths[k].name : k \in 1..Len(ths)}
      map == IF tw.none THEN <<>> ELSE tw.map
  IN [none |-> FALSE,
      map |-> [n \in DOMAIN map \cup names |->
                 IF n \in DOMAIN map THEN map[n] ELSE One]]

\* classify_all_urls as it would be if it listed every url.
classify_all_urls_listing_all(summary, ths, tw) ==
  LET c == classify_url_to_theme(summary, KeptThemes(ths), FilledWeights(ths, tw))
  IN [listed |-> TRUE, theme |-> c.theme, score |-> c.score]

\* report.classify_all_urls for the summaries {url: summary}: the entry of
\* the result for url, if it has one.
classify_all_urls(summary, ths, tw) ==
  LET c == classify_url_to_theme(summary, KeptThemes(ths), FilledWeights(ths, tw))
  IN [listed |-> c.theme # None /\ c.theme # "", theme |-> c.theme, score |-> c.score]

(***************************************************************************)
(* The inputs of the classification                                        *)
(***************************************************************************)

\* The longest list of resource tags, the longest list of themes.
MaxTags == 2
MaxThemes == 3

E == <<>>
A == <<"a">>
B == <<"b">>
AB == <<"a", "b">>
ABC == <<"a", "b", "c">>
Tags == {E, A, B, AB}

\* A theme as the caller supplies it; weight is the theme's own, if it has one.
Theme(name, tags) == [name |-> name, tags |-> tags, has_weight |-> FALSE, weight |-> One]
ThemePool ==
  {Theme("T1", <<A, B>>),
   Theme("T2", <<ABC>>),
   [name |-> "T3", tags |-> <<B, B, E>>, has_weight |-> TRUE, weight |-> Frac(2, 1)],
   Theme("T2", <<AB>>),
   Theme("", <<A>>)}

Lists(S, n) == UNION {[1..k -> S] : k \in 0..n}
Distinct(s) == \A i, j \in 1..Len(s) : s[i] = s[j] => i = j

Summaries ==
  {[has_tags |-> FALSE, tags |-> <<>>]}
  \cup {[has_tags |-> TRUE, tags |-> t] : t \in Lists(Tags, MaxTags)}

ThemeLists == {s \in Lists(ThemePool, MaxThemes) : Distinct(s)}

NoWeights == [none |-> TRUE, map |-> <<>>]
Weights(map) == [none |-> FALSE, map |-> map]
WeightMaps ==
  {NoWeights,
   Weights(<<>>),
   Weights([n \in {"T2"} |-> Frac(2, 1)]),
   Weights([n \in {"T1", "T2", "T3"} |->
              IF n = "T1" THEN Zero ELSE IF n = "T2" THEN Frac(1, 2) ELSE Frac(-1, 1)])}

NoAnswer == [op |-> "none"]

ReportInit ==
  /\ CacheInit
  /\ table = NoFile
  /\ url_summary \in Summaries
  /\ themes \in ThemeLists
  /\ theme_weights \in WeightMaps
  /\ answer = NoAnswer
  /\ NoDocument
  /\ NoSummary
  /\ NoTranslation

\* calculate_tag_match_weight(a, b) for a tag of the resource and a tag of a theme
Match(a, b) ==
  /\ answer' = [op |-> "match", a |-> a, b |-> b,
                weight |-> calculate_tag_match_weight(a, b)]
  /\ UNCHANGED <<offReport, url_summary, themes, theme_weights>>

\* classify_url_to_theme(url_summary, themes, theme_weights)
Classify ==
  /\ LET c == classify_url_to_theme(url_summary, themes, theme_weights)
     IN answer' = [op |-> "classify", theme |-> c.theme, score |-> c.score]
  /\ UNCHANGED <<offReport, url_summary, themes, theme_weights>>

\* classify_all_urls({url: url_summary}, {'themes': themes}, theme_weights):
\* a map that is not None is filled in place.
ClassifyAll ==
  /\ LET c == classify_all_urls(url_summary, themes, theme_weights)
     IN answer' = [op |-> "classify_all", listed |-> c.listed,
                   theme |-> c.theme, score |-> c.score]
  /\ theme_weights' = IF theme_weights.none THEN theme_weights
                      ELSE FilledWeights(themes, theme_weights)
  /\ UNCHANGED <<offReport, url_summary, themes>>

UrlTags == IF url_summary.has_tags THEN url_summary.tags ELSE <<>>
ThemeTags == UNION {{themes[k].tags[i] : i \in 1..Len(themes[k].tags)} : k \in 1..Len(themes)}

ReportNext ==
  \/ \E a \in {UrlTags[i] : i \in 1..Len(UrlTags)}, b \in ThemeTags : Match(a, b)
  \/ Classify
  \/ ClassifyAll

ReportSpec == ReportInit /\ [][ReportNext]_vars

(***************************************************************************)
(* url2md/report.py: group_urls_by_tag_in_theme.                           *)
(*                                                                         *)
(* A dict is the sequence of its items [key, value] in insertion order; a  *)
(* (url, score) tuple is the record [url, score].                          *)
(***************************************************************************)

\* d.get(key, default)
DictGet(d, key, default) ==
  IF \E i \in 1..Len(d) : d[i].key = key
    THEN d[CHOOSE i \in 1..Len(d) : d[i].key = key].value
    ELSE default

\* key in d
DictHas(d, key) == \E i \in 1..Len(d) : d[i].key = key

\* d[key] = value
DictSet(d, key, value) ==
  IF DictHas(d, key)
    THEN [i \in 1..Len(d) |-> IF d[i].key = key THEN [key |-> key, value |-> value] ELSE d[i]]
    ELSE Append(d, [key |-> key, value |-> value])

\* The literal '_untagged': the characters of 'tag' are inside it.
TAG == <<"tag">>
UNTAGGED == <<"_un", "tag", "ged">>

\* Lines 186-192, the loop over theme_tags for one url_tag: the index of the
\* first theme tag of match weight above 0, or 0.
RECURSIVE FirstThemeTag(_, _, _)
FirstThemeTag(url_tag, theme_tags, j) ==
  IF j > Len(theme_tags) THEN 0
  ELSE IF FGt(calculate_tag_match_weight(url_tag, theme_tags[j]), Zero) THEN j
  ELSE FirstThemeTag(url_tag, theme_tags, j + 1)

\* Lines 184-194, the loop over url_tags: the theme tag of the first url tag
\* that matches one, or 0 when no url tag matches.
RECURSIVE FirstMatch(_, _)
FirstMatch(url_tags, theme_tags) ==
  IF url_tags = <<>> THEN 0
  ELSE LET j == FirstThemeTag(Head(url_tags), theme_tags, 1)
       IN IF j # 0 THEN j ELSE FirstMatch(Tail(url_tags), theme_tags)

\* Lines 178-197, the loop over urls_with_scores; g is (tag_groups, untagged).
RECURSIVE GroupLoop(_, _, _, _)
GroupLoop(pairs, theme_tags, summaries, g) ==
  IF pairs = <<>> THEN g
  ELSE LET pair == Head(pairs)
           url_tags == DictGet(summaries, pair.url, <<>>)
           j == FirstMatch(url_tags, theme_tags)
       IN GroupLoop(Tail(pairs), theme_tags, summaries,
            IF j # 0
              THEN [g EXCEPT !.tag_groups =
                      DictSet(@, theme_tags[j],
                              Append(DictGet(@, theme_tags[j], <<>>), pair))]
              ELSE [g EXCEPT !.untagged = Append(@, pair)])

\* report.group_urls_by_tag_in_theme
group_urls_by_tag_in_theme(pairs, theme_tags, summaries) ==
  LET g == GroupLoop(pairs, theme_tags, summaries,
                     [tag_groups |-> <<>>, untagged |-> <<>>])
  IN IF g.untagged # <<>>
       THEN DictSet(g.tag_groups, UNTAGGED, g.untagged)
       ELSE g.tag_groups

(***************************************************************************)
(* The inputs of the grouping                                              *)
(***************************************************************************)

\* The longest list of (url, score) pairs, the longest list of theme tags.
MaxPairs == 3
MaxThemeTags == 3

Pair(url, score) == [url |-> url, score |-> score]
PairPool == {Pair("u1", One), Pair("u2", Frac(1, 2)), Pair("u3", One)}
PairLists == Lists(PairPool, MaxPairs)

ThemeTagLists == Lists({A, B, UNTAGGED}, MaxThemeTags)

Summary(url, tags) == [key |-> url, value |-> tags]
SummaryMaps ==
  {<<Summary("u1", <<B, A>>), Summary("u2", <<TAG>>), Summary("u3", <<ABC>>)>>,
   <<Summary("u2", <<AB, B>>), Summary("u1", <<>>)>>}

GroupInit ==
  /\ CacheInit
  /\ table = NoFile
  /\ url_summary = [has_tags |-> FALSE, tags |-> <<>>]
  /\ themes = <<>>
  /\ theme_weights = NoWeights
  /\ answer = NoAnswer
  /\ url_summaries \in SummaryMaps
  /\ urls_with_scores \in PairLists
  /\ theme_tag_list \in ThemeTagLists
  /\ tag_groups = [op |-> "none"]
  /\ url_classifications = [op |-> "none"]
  /\ theme_subsections = {}
  /\ lines = [op |-> "none"]
  /\ NoSummary
  /\ NoTranslation

\* group_urls_by_tag_in_theme(urls_with_scores, theme_tags, url_summaries)
Group ==
  /\ tag_groups' = [op |-> "group",
                    dict |-> group_urls_by_tag_in_theme(urls_with_scores,
                                                        theme_tag_list, url_summaries)]
  /\ UNCHANGED <<cache, report, url_summaries, urls_with_scores, theme_tag_list,
                 document, paths, termtable>>

GroupNext == Group

GroupSpec == GroupInit /\ [][GroupNext]_vars

(***************************************************************************)
(* url2md/report.py: generate_markdown_report.                             *)
(*                                                                         *)
(* The report is the sequence of its headings, counts and list items, each *)
(* a record Line; blank lines, titles, one-line summaries, descriptions,   *)
(* percentages and the translation of the labels are left out.             *)
(***************************************************************************)

\* classify_all_urls lines 149-158, the loop over url_summaries: the dict
\* {url: {theme, score}} in the order of url_summaries.
RECURSIVE UrlClassifications(_, _, _)
UrlClassifications(summaries, ths, tw) ==
  IF summaries = <<>> THEN <<>>
  ELSE LET url == Head(summaries).key
           c == classify_all_urls([has_tags |-> TRUE, tags |-> Head(summaries).value],
                                  ths, tw)
           rest == UrlClassifications(Tail(summaries), ths, tw)
       IN IF c.listed
            THEN <<[key |-> url, value |-> [theme |-> c.theme, score |-> c.score]]>> \o rest
            ELSE rest

Line(kind, theme, tag, url, n) ==
  [kind |-> kind, theme |-> theme, tag |-> tag, url |-> url, n |-> n]

\* Line 232: Counter(theme of every classification), in first-seen order.
RECURSIVE Counter(_, _)
Counter(cls, counts) ==
  IF cls = <<>> THEN counts
  ELSE Counter(Tail(cls),
               DictSet(counts, Head(cls).value.theme,
                       DictGet(counts, Head(cls).value.theme, 0) + 1))

\* sorted(..., reverse=True) is stable: x goes behind every item whose sort
\* key is not smaller than its own.  The items are [item, k], k the sort key.
RECURSIVE InsertDescending(_, _)
InsertDescending(sorted, x) ==
  IF sorted = <<>> THEN <<x>>
  ELSE IF FGt(x.k, Head(sorted).k) THEN <<x>> \o sorted
  ELSE <<Head(sorted)>> \o InsertDescending(Tail(sorted), x)

RECURSIVE SortDescending(_, _)
SortDescending(s, sorted) ==
  IF s = <<>> THEN [i \in 1..Len(sorted) |-> sorted[i].item]
  ELSE SortDescending(Tail(s), InsertDescending(sorted, Head(s)))

\* most_common() as it would be without the sort.
most_common_unsorted(counts) == counts

\* Counter.most_common(): the items by count, descending.
most_common(counts) ==
  SortDescending([i \in 1..Len(counts) |->
                   [item |-> counts[i], k |-> Frac(counts[i].value, 1)]], <<>>)

\* Lines 262-267: urls_by_theme.
RECURSIVE UrlsByTheme(_, _)
UrlsByTheme(cls, by_theme) ==
  IF cls = <<>> THEN by_theme
  ELSE LET theme == Head(cls).value.theme
       IN UrlsByTheme(Tail(cls),
            DictSet(by_theme, theme,
                    Append(DictGet(by_theme, theme, <<>>),
                           Pair(Head(cls).key, Head(cls).value.score))))

\* Line 288: urls_with_scores.sort(key=score, reverse=True)
SortByScore(pairs) ==
  SortDescending([i \in 1..Len(pairs) |-> [item |-> pairs[i], k |-> pairs[i].score]],
                 <<>>)

\* Lines 292-296: the tags of the first theme of that name.
RECURSIVE TagsOfTheme(_, _)
TagsOfTheme(themes_data, theme_name) ==
  IF themes_data = <<>> THEN <<>>
  ELSE IF Head(themes_data).name = theme_name THEN Head(themes_data).tags
  ELSE TagsOfTheme(Tail(themes_data), theme_name)

\* The list items of the pairs.
Items(pairs) == [i \in 1..Len(pairs) |-> Line("url", "", <<>>, pairs[i].url, 0)]

\* Lines 302-316: the subsections, one for each theme tag that is a key of
\* tag_groups.
RECURSIVE TagSubsections(_, _)
TagSubsections(theme_tags, groups) ==
  IF theme_tags = <<>> THEN <<>>
  ELSE (IF DictHas(groups, Head(theme_tags))
          THEN <<Line("tag", "", Head(theme_tags), "", 0)>>
               \o Items(DictGet(groups, Head(theme_tags), <<>>))
          ELSE <<>>)
       \o TagSubsections(Tail(theme_tags), groups)

\* Lines 318-331: the subsection of the resources that matched no tag.
OtherSubsection(groups) ==
  IF DictHas(groups, UNTAGGED)
    THEN <<Line("other", "", <<>>, "", 0)>> \o Items(DictGet(groups, UNTAGGED, <<>>))
    ELSE <<>>

\* Lines 276-342: the section of one theme.
ThemeSection(theme_name, by_theme, themes_data, summaries, subsections) ==
  LET urls_with_scores_ == SortByScore(DictGet(by_theme, theme_name, <<>>))
      heading == <<Line("theme", theme_name, <<>>, "", Len(urls_with_scores_))>>
  IN IF theme_name \in subsections
       THEN LET theme_tags == TagsOfTheme(themes_data, theme_name)
                groups == group_urls_by_tag_in_theme(urls_with_scores_, theme_tags,
                                                     summaries)
            IN heading \o TagSubsections(theme_tags, groups) \o OtherSubsection(groups)
       ELSE heading \o Items(urls_with_scores_)

RECURSIVE ThemeSections(_, _, _, _, _)
ThemeSections(common, by_theme, themes_data, summaries, subsections) ==
  IF common = <<>> THEN <<>>
  ELSE ThemeSection(Head(common).key, by_theme, themes_data, summaries, subsections)
       \o ThemeSections(Tail(common), by_theme, themes_data, summaries, subsections)

\* Urls are compared as strings.
UrlsInOrder == <<"u1", "u2", "u3">>

\* sorted(url_summaries.keys())
SortedKeys(summaries) ==
  SelectSeq(UrlsInOrder, LAMBDA u : DictHas(summaries, u))

\* Lines 345-361: the section of the urls that have no classification.
UnclassifiedSection(cls, summaries) ==
  LET unclassified_count == Len(summaries) - Len(cls)
  IN IF unclassified_count > 0
       THEN <<Line("unclassified", "", <<>>, "", unclassified_count)>>
            \o Items([i \in 1..Len(SelectSeq(SortedKeys(summaries),
                                             LAMBDA u : ~DictHas(cls, u))) |->
                        Pair(SelectSeq(SortedKeys(summaries),
                                       LAMBDA u : ~DictHas(cls, u))[i], Zero)])
       ELSE <<>>

\* report.generate_markdown_report
generate_markdown_report(cls, themes_data, summaries, subsections) ==
  LET theme_counts == Counter(cls, <<>>)
      total_classified == Len(cls)
      total_urls == Len(summaries)
      unclassified_count == total_urls - total_classified
      common == most_common(theme_counts)
  IN <<Line("Total URLs", "", <<>>, "", total_urls),
       Line("Classified", "", <<>>, "", total_classified),
       Line("Unclassified", "", <<>>, "", unclassified_count)>>
     \o [i \in 1..Len(common) |-> Line("count", common[i].key, <<>>, "", common[i].value)]
     \o ThemeSections(common, UrlsByTheme(cls, <<>>), themes_data, summaries, subsections)
     \o UnclassifiedSection(cls, summaries)

(***************************************************************************)
(* The inputs of the report                                                *)
(***************************************************************************)

\* The summaries of u1, u2, u3 in the order of first and of last summary.
UrlOrders == {<<"u1", "u2", "u3">>, <<"u3", "u1", "u2">>}
ReportSummaryMaps ==
  {[i \in 1..3 |-> Summary(o[i], <<f[o[i]]>>)] :
     o \in UrlOrders, f \in [{"u1", "u2", "u3"} -> {A, B, AB}]}

SubsectionLists == {{}, {"T1", "T3"}}
ReportWeightMaps == {NoWeights, Weights([n \in {"T2"} |-> Frac(2, 1)])}

DocumentInit ==
  /\ CacheInit
  /\ table = NoFile
  /\ url_summary = [has_tags |-> FALSE, tags |-> <<>>]
  /\ answer = NoAnswer
  /\ themes \in ThemeLists
  /\ theme_weights \in ReportWeightMaps
  /\ url_summaries \in ReportSummaryMaps
  /\ urls_with_scores = <<>>
  /\ theme_tag_list = <<>>
  /\ tag_groups = [op |-> "none"]
  /\ url_classifications = [op |-> "none"]
  /\ theme_subsections \in SubsectionLists
  /\ lines = [op |-> "none"]
  /\ NoSummary
  /\ NoTranslation

\* The report command: classify_all_urls(url_summaries, classification_data,
\* theme_weights), then generate_markdown_report with what it returned.
Report ==
  /\ lines.op = "none"
  /\ LET cls == UrlClassifications(url_summaries, themes, theme_weights)
     IN /\ url_classifications' = [op |-> "classify_all", dict |-> cls]
        /\ lines' = [op |-> "report",
                     text |-> generate_markdown_report(cls, themes, url_summaries,
                                                       theme_subsections)]
  /\ theme_weights' = IF theme_weights.none THEN theme_weights
                      ELSE FilledWeights(themes, theme_weights)
  /\ UNCHANGED <<cache, url_summary, themes, answer, url_summaries, grouping,
                 theme_subsections, paths, termtable>>

DocumentNext == Report

DocumentSpec == DocumentInit /\ [][DocumentNext]_vars

(***************************************************************************)
(* cache.Cache.get_summary_path.  A file name is a string of characters.   *)
(***************************************************************************)

\* str.rfind(c), counted from 1: the last place of c in s, or 0.
RFind(s, c) ==
  IF \E i \in 1..Len(s) : s[i] = c
    THEN CHOOSE i \in 1..Len(s) : s[i] = c /\ \A j \in (i + 1)..Len(s) : s[j] # c
    ELSE 0

\* Path(s).name: the last component of the path; empty components and '.'
\* are no components.
PathName(s) ==
  LET parts == SelectSeq(Split(s, "/"), LAMBDA part : part # <<>> /\ part # <<".">>)
  IN IF parts = <<>> THEN <<>> ELSE parts[Len(parts)]

\* Path(s).stem: the name without its last suffix; a dot at either end of
\* the name starts no suffix.
Stem(s) ==
  LET name == PathName(s)
      i == RFind(name, ".")
  IN IF 1 < i /\ i < Len(name) THEN SubSeq(name, 1, i - 1) ELSE name

NoPath == [op |-> "get_summary_path", none |-> TRUE, dir |-> "", name |-> <<>>]
PathIn(dir, name) == [op |-> "get_summary_path", none |-> FALSE, dir |-> dir, name |-> name]

\* get_summary_path as it would be without the test of the file name.
get_summary_path_unguarded(r) == PathIn("summary", Stem(r.filename) \o <<".json">>)

\* Cache.get_summary_path
get_summary_path(r) ==
  IF r.filename = <<>> THEN NoPath
  ELSE PathIn("summary", Stem(r.filename) \o <<".json">>)

\* The longest file name.
MaxName == 4
FileNames == Lists({"h", ".", "/"}, MaxName)

SummaryInit ==
  /\ CacheInit
  /\ table = NoFile
  /\ url_summary = [has_tags |-> FALSE, tags |-> <<>>]
  /\ themes = <<>>
  /\ theme_weights = NoWeights
  /\ answer = NoAnswer
  /\ NoDocument
  /\ NoTranslation
  /\ url_info \in {[NoInfo EXCEPT !.filename = f] : f \in FileNames}
  /\ summary_dir \in BOOLEAN
  /\ summary_path = [op |-> "none"]

\* cache.get_summary_path(url_info); create_summary_directory makes the
\* directory unless the file name is empty.
GetSummaryPath ==
  /\ summary_path' = get_summary_path(url_info)
  /\ summary_dir' = (summary_dir \/ ~get_summary_path(url_info).none)
  /\ UNCHANGED <<cache, report, url_summaries, grouping, document, termtable, url_info>>

SummaryNext == GetSummaryPath

SummarySpec == SummaryInit /\ [][SummaryNext]_vars

(***************************************************************************)
(* translation_cache.TranslationCache: the term table terms.tsv.           *)
(***************************************************************************)

TERMS_HEADER == <<<<"English">>, <<"Language">>, <<"Translation">>>>

\* TranslationCache.save, the rows prepared from self._translations.
TermRows(ts) == [k \in 1..Len(ts) |-> <<ts[k].key[1], ts[k].key[2], ts[k].value>>]

\* TranslationCache.load, the loop over self.data.
RECURSIVE LoadTranslations(_, _)
LoadTranslations(rows, ts) ==
  IF rows = <<>> THEN ts
  ELSE LET row == Head(rows)
       IN IF Len(row) >= 3
            THEN LoadTranslations(Tail(rows), DictSet(ts, <<row[1], row[2]>>, row[3]))
            ELSE LoadTranslations(Tail(rows), ts)

\* The number of operations on the translation cache a behaviour has.
MaxTermOps == 4

English == {<<"y">>, <<>>}
Languages == {<<"ja">>}
Translated == {<<"x">>, <<"w">>, <<>>, <<"x", SP>>}

TermInit ==
  /\ CacheInit
  /\ table = NoFile
  /\ url_summary = [has_tags |-> FALSE, tags |-> <<>>]
  /\ themes = <<>>
  /\ theme_weights = NoWeights
  /\ answer = NoAnswer
  /\ NoDocument
  /\ NoSummary
  /\ NoTranslation

\* add_translation(english, language, translation)
AddTranslation(english, language, translation) ==
  /\ term_ops < MaxTermOps
  /\ term_ops' = term_ops + 1
  /\ translations' = DictSet(translations, <<english, language>>, translation)
  /\ UNCHANGED <<cache, report, url_summaries, grouping, document, paths,
                 terms_header, terms_data, terms, terms_saved>>

\* TranslationCache.save and TSVManager.save
SaveTranslations ==
  /\ term_ops < MaxTermOps
  /\ term_ops' = term_ops + 1
  /\ terms_header' = TERMS_HEADER
  /\ terms_data' = TermRows(translations)
  /\ terms' = File(TSVLines(TERMS_HEADER, TermRows(translations)))
  /\ terms_saved' = [saved |-> TRUE, map |-> translations]
  /\ UNCHANGED <<cache, report, url_summaries, grouping, document, paths, translations>>

\* TranslationCache(cache_dir): a fresh object loads terms.tsv.
NewTranslationCache ==
  /\ term_ops < MaxTermOps
  /\ term_ops' = term_ops + 1
  /\ terms_header' = TSVLoad(terms).header
  /\ terms_data' = TSVLoad(terms).data
  /\ translations' = LoadTranslations(TSVLoad(terms).data, <<>>)
  /\ UNCHANGED <<cache, report, url_summaries, grouping, document, paths,
                 terms, terms_saved>>

TermNext ==
  \/ \E english \in English, language \in Languages, translation \in Translated :
       AddTranslation(english, language, translation)
  \/ SaveTranslations
  \/ NewTranslationCache

TermSpec == TermInit /\ [][TermNext]_vars

(***************************************************************************)
(* fetch.fetch_urls: the batch.  Its calls of fetch_and_cache_url take the *)
(* steps above; nobody interrupts them.                                    *)
(***************************************************************************)

NoBatch == [phase |-> "none"]

\* Lines 71-79 as they would be if the loop ended after the first url.
urls_to_fetch_first(urls, force, es) == IF urls = <<>> THEN <<>> ELSE <<Head(urls)>>

\* Lines 71-79: the urls the loop will fetch.
urls_to_fetch(urls, force, es) ==
  IF force THEN urls
  ELSE SelectSeq(urls, LAMBDA url :
         IndexOf(es, url) = 0 \/ es[IndexOf(es, url)].status # SUCCESS)

\* The longest list of urls a batch is given.
MaxBatch == 2
UrlLists == Lists(Urls, MaxBatch)

BatchInit == Init

\* fetch_urls(urls, cache_dir, force=force, throttle_seconds=t) up to the
\* loop: Cache(cache_dir) has loaded the table.
StartBatch(urls, force, t) ==
  /\ batch.phase = "none"
  /\ pc = "idle"
  /\ batch' = LET queue == urls_to_fetch(urls, force, entries)
              IN [phase |-> IF urls = <<>> \/ queue = <<>> THEN "returned" ELSE "loop",
                  urls |-> urls, force |-> force, throttle |-> t,
                  queue |-> queue, current |-> <<>>, n |-> 0]
  /\ UNCHANGED <<process, written, offBatch>>

\* for url in urls_to_fetch: the next url is taken.
BatchLoop ==
  /\ batch.phase = "loop"
  /\ pc = "idle"
  /\ ops = batch.n
  /\ batch.queue # <<>>
  /\ batch' = [batch EXCEPT !.current = Head(batch.queue),
                            !.queue = Tail(batch.queue),
                            !.n = batch.n + 1]
  /\ UNCHANGED <<process, written, offBatch>>

\* Lines 98-102: cache.fetch_and_cache_url(url, throttle_seconds=...)
BatchCall ==
  /\ batch.phase = "loop"
  /\ ops < batch.n
  /\ Begin(batch.current, batch.throttle)

\* The loop is over: show_statistics, return.
BatchReturn ==
  /\ batch.phase = "loop"
  /\ pc = "idle"
  /\ ops = batch.n
  /\ batch.queue = <<>>
  /\ batch' = [batch EXCEPT !.phase = "returned"]
  /\ UNCHANGED <<process, written, offBatch>>

BatchNext ==
  \/ \E urls \in UrlLists, force \in BOOLEAN, t \in Throttles : StartBatch(urls, force, t)
  \/ BatchLoop
  \/ BatchCall
  \/ Throttle
  \/ \E ct \in ContentTypes : FetchRespond(ct)
  \/ \E msg \in Messages : FetchRaise(msg)
  \/ FetchReturn
  \/ \E body \in Bodies : WriteContent(body)
  \/ SaveTemp
  \/ SaveUnlink
  \/ SaveRename
  \/ BatchReturn

BatchSpec == BatchInit /\ [][BatchNext]_vars

(***************************************************************************)
(* A process whose records all come from fetch_and_cache_url or from the   *)
(* table, on a directory whose content files nobody deletes.               *)
(***************************************************************************)

FetchNext ==
  \/ \E url \in Urls, t \in Throttles : Begin(url, t)
  \/ Throttle
  \/ \E ct \in ContentTypes : FetchRespond(ct)
  \/ \E msg \in Messages : FetchRaise(msg)
  \/ FetchReturn
  \/ \E body \in Bodies : WriteContent(body)
  \/ Interrupt
  \/ Save
  \/ SaveTemp
  \/ SaveUnlink
  \/ SaveRename
  \/ Load
  \/ Restart
  \/ \E dt \in Ticks : Tick(dt)

FetchSpec == Init /\ [][FetchNext]_vars

(***************************************************************************)
(* The claims                                                              *)
(***************************************************************************)

Cols(line) == Split(line, TAB)

\* The data rows of a table file, as columns; none when there is no file.
RowsOf(f) ==
  IF f.exists /\ Len(f.lines) > 1
    THEN [k \in 1..(Len(f.lines) - 1) |-> Cols(f.lines[k + 1])]
    ELSE <<>>

HasRecord(es, url) == \E i \in 1..Len(es) : es[i].url = url
RecordOf(es, url) == es[CHOOSE i \in 1..Len(es) : es[i].url = url]

\* The columns of a row a record was written to, the error column apart.
RowHolds(cols, r) ==
  /\ Len(cols) >= 7
  /\ cols[1] = r.url
  /\ cols[2] = r.hash
  /\ cols[3] = r.filename
  /\ cols[4] = r.fetch_date
  /\ cols[5] = r.status
  /\ cols[6] = r.content_type
  /\ cols[7] = ToStr(r.size)

PreSave == {"throttle", "fetch", "respond", "write"}
InReplace == {"unlink", "rename"}

\* C1: while save() replaces the table, at every step the target path holds
\* the complete previous table or the complete new one; in particular it is
\* never absent when a table existed before save() began.
C1_AtomicReplace ==
  pc \in InReplace =>
    \/ table = savePrev
    \/ table = File(TSVLines(HEADER, SaveRows(entries)))

SameFields(a, b) ==
  /\ a.url = b.url
  /\ a.hash = b.hash
  /\ a.filename = b.filename
  /\ a.fetch_date = b.fetch_date
  /\ a.status = b.status
  /\ a.content_type = b.content_type
  /\ a.size = b.size
  /\ a.error = b.error

\* C2: when save() has just returned, a fresh Cache on the same directory
\* holds, for every record of the cache, a record with identical url, hash,
\* filename, fetch_date, status, content_type, size and error.
C2_RoundTrip ==
  (pc = "idle" /\ result.kind \in {"fetch", "save"}) =>
    LET fresh == Loaded(table).entries
    IN \A i \in 1..Len(entries) :
         \E j \in 1..Len(fresh) : SameFields(fresh[j], entries[i])

\* The step is the start of fetch_and_cache_url(url).
BeginStep(url) ==
  /\ pc = "idle"
  /\ call'.op = "fetch_and_cache_url"
  /\ call'.url = url
  /\ ops' = ops + 1

\* The cache holds a success record for url with a content file present.
Cached(url) ==
  \E i \in 1..Len(entries) :
    /\ entries[i].url = url
    /\ entries[i].status = SUCCESS
    /\ entries[i].filename # <<>>
    /\ entries[i].filename \in content

\* C3: fetch_and_cache_url(url) on a url cached with status success, a
\* filename and its content file present returns success=True,
\* downloaded=False, fetches nothing and changes neither the map, the table,
\* the content directory nor the domain access times.
C3_IdempotentSkip ==
  [][\A url \in Urls :
       (BeginStep(url) /\ Cached(url)) =>
         /\ pc' = "idle"
         /\ result' = CacheResult("skip", TRUE, FALSE)
         /\ fetches' = 0
         /\ UNCHANGED <<entries, domain_access_times, table, temp, content>>]_vars

C3_Witness == result.kind = "skip" /\ Len(entries) > 0 /\ table.exists

\* C4: when a call that attempted a fetch has returned, the table on disk
\* has a row for the url with status success or error as the result says,
\* and the map holds the record that row was written from.
C4_AttemptRecorded ==
  (pc = "idle" /\ result.kind = "fetch") =>
    LET status == IF result.success THEN SUCCESS ELSE ERROR
        rows == RowsOf(table)
    IN /\ HasRecord(entries, call.url)
       /\ RecordOf(entries, call.url).status = status
       /\ \E k \in 1..Len(rows) :
            /\ rows[k][5] = status
            /\ RowHolds(rows[k], RecordOf(entries, call.url))

C4_Witness ==
  pc = "idle" /\ result.kind = "fetch" /\ ~result.success /\ Len(entries) = 2

\* A row of the temporary file holds url's record as the map holds it now.
WrittenAsIs(url) ==
  /\ HasRecord(entries, url)
  /\ \E k \in 1..Len(RowsOf(temp)) : RowHolds(RowsOf(temp)[k], RecordOf(entries, url))

\* C5: a call interrupted before its save leaves the table as it was when
\* the call began, and no later save() writes the record as the interrupted
\* call left it (fields of the new attempt with the old status).
C5_InterruptLeavesNoTrace ==
  /\ (pc \in PreSave => table = callTable)
  /\ (pc \in InReplace => \A url \in partial : ~WrittenAsIs(url))

\* C6: every record with status success has an empty error, in the map and
\* in the table.
C6_SuccessHasNoError ==
  /\ \A i \in 1..Len(entries) :
       entries[i].status = SUCCESS => entries[i].error = <<>>
  /\ \A k \in 1..Len(RowsOf(table)) :
       LET cols == RowsOf(table)[k]
       IN (Len(cols) >= 8 /\ cols[5] = SUCCESS) => cols[8] = <<>>

\* The cases in which the url must be fetched.
MustFetch(url) ==
  \/ ~HasRecord(entries, url)
  \/ RecordOf(entries, url).status \in {ERROR, <<>>}
  \/ /\ RecordOf(entries, url).status = SUCCESS
     /\ \/ RecordOf(entries, url).filename = <<>>
        \/ RecordOf(entries, url).filename \notin content

\* C7: fetch_and_cache_url(url) goes on to fetch exactly when there is no
\* record for url, or its status is error or unset, or it is success with an
\* empty filename or a missing content file; a call that returns after that
\* has invoked the fetch once and left one record for url with the status
\* of the outcome, and a call that skips has invoked none.
C7_RetryDecision ==
  [][/\ \A url \in Urls :
          BeginStep(url) => ((pc' = "throttle") <=> MustFetch(url))
     /\ (pc' = "idle" /\ result'.kind = "fetch") =>
          /\ fetches' = 1
          /\ Cardinality({i \in 1..Len(entries') : entries'[i].url = call'.url}) = 1
          /\ RecordOf(entries', call'.url).status =
               (IF result'.success THEN SUCCESS ELSE ERROR)
     /\ (pc' = "idle" /\ result'.kind = "skip") => fetches' = 0]_vars

C7_Witness ==
  /\ pc = "idle"
  /\ result.kind = "fetch"
  /\ result.success
  /\ callInfo.status = SUCCESS

UniqueUrls(es) == \A i, j \in 1..Len(es) : es[i].url = es[j].url => i = j
UniqueRows(rows) == \A i, j \in 1..Len(rows) : rows[i][1] = rows[j][1] => i = j

\* C8: the map never holds two records for one url, no table written by
\* save() holds two rows for one url, and an add or a fetch for a url that
\* already has a record leaves the number of records as it was.
C8_Upsert ==
  [][/\ UniqueUrls(entries')
     /\ (pc' \in InReplace => UniqueRows(RowsOf(temp')))
     /\ (pc' = "idle" /\ result'.kind \in {"fetch", "save"} =>
           UniqueRows(RowsOf(table')))
     /\ (call'.op \in {"add", "fetch_and_cache_url"} =>
           Len(entries') =
             Len(entries) + (IF HasRecord(entries, call'.url)
                                \/ entries' = entries THEN 0 ELSE 1))]_vars

C8_Witness ==
  /\ pc = "idle"
  /\ result.kind = "fetch"
  /\ callInfo.status # <<>>
  /\ Len(entries) = 2
  /\ Len(RowsOf(table)) = 2

\* C9 as stated: every record of the cache has hash = digest(url).
C9_HashIsDigest ==
  \A i \in 1..Len(entries) : entries[i].hash = Digest(entries[i].url)

\* C9, amended: a record made in memory has hash = digest(url); a record
\* obtained by load() has the hash its row stores in the hash column.
C9_HashFromRowOrDigest ==
  /\ (pc \in PreSave /\ ~aliased) => info.hash = Digest(info.url)
  /\ LET loaded == Loaded(table).entries
         rows == RowsOf(table)
     IN \A j \in 1..Len(loaded) :
          \E k \in 1..Len(rows) :
            LET cols == Cols(Strip(table.lines[k + 1]))
            IN /\ Len(cols) >= 7
               /\ cols[1] = loaded[j].url
               /\ cols[2] = loaded[j].hash

\* A fresh Cache has loaded a row whose hash column is not the digest.
C9_Witness ==
  /\ call.op = "Cache"
  /\ \E i \in 1..Len(entries) :
       /\ entries[i].hash # Digest(entries[i].url)
       /\ \E k \in 1..Len(RowsOf(table)) : RowsOf(table)[k][2] = entries[i].hash

\* e is msg cut at the first occurrence of " at http".
CutAtHttp(e, msg) ==
  LET At(k) == k + Len(ATHTTP) - 1 <= Len(msg)
               /\ SubSeq(msg, k, k + Len(ATHTTP) - 1) = ATHTTP
  IN \/ e = msg /\ \A k \in 1..Len(msg) : ~At(k)
     \/ \E k \in 1..Len(msg) :
          /\ At(k)
          /\ \A j \in 1..(k - 1) : ~At(j)
          /\ e = SubSeq(msg, 1, k - 1)

\* C10: when the fetch raised, the call goes on to save and returns
\* success=False, downloaded=False, and url's record has status error and
\* the raised message cut at the first " at http" as its error.
C10_ErrorIsValue ==
  (call.op = "fetch_and_cache_url" /\ call.msg # <<>>) =>
    /\ pc \in {"save", "unlink", "rename", "idle"}
    /\ pc # "idle" => pending = CacheResult("fetch", FALSE, FALSE)
    /\ pc = "idle" => result = CacheResult("fetch", FALSE, FALSE)
    /\ HasRecord(entries, call.url)
    /\ RecordOf(entries, call.url).status = ERROR
    /\ CutAtHttp(RecordOf(entries, call.url).error, call.msg)

C10_Witness ==
  /\ pc = "idle"
  /\ result = CacheResult("fetch", FALSE, FALSE)
  /\ Find(call.msg, ATHTTP) # 0


\* The extension a content type stands for: '.html' when empty or unknown.
ExtensionOf(ct) ==
  IF ct = <<>> \/ ct = UNKNOWN THEN <<".html">> ELSE guess_extension(ct)

Numbered(hash, n, ext) == hash \o <<"-">> \o ToStr(n) \o ext

\* C11: the name find_available_filename assigns is '<hash><ext>' when no
\* content file has that name, and otherwise '<hash>-N<ext>' for the
\* smallest N >= 1 that no content file has; ext is the extension of the
\* content type, '.html' when the type is empty or unknown; the name is
\* never the name of a content file that exists.
C11_FirstFreeName ==
  [][(pc = "respond" /\ pc' = "write") =>
       LET hash == info'.hash
           ext == ExtensionOf(info'.content_type)
           name == info'.filename
       IN /\ name \notin content
          /\ \/ name = hash \o ext
             \/ /\ hash \o ext \in content
                /\ \E n \in 1..(Cardinality(content) + 1) :
                     /\ name = Numbered(hash, n, ext)
                     /\ \A m \in 1..(n - 1) : Numbered(hash, m, ext) \in content]_vars

\* A second body for the same hash and extension is being written to '-1'.
C11_Witness ==
  /\ pc = "write"
  /\ info.hash \o ExtensionOf(info.content_type) \in content
  /\ info.filename = Numbered(info.hash, 1, ExtensionOf(info.content_type))
  /\ info.filename \in content


\* s with every CR, LF and tab replaced by one space.
EachReplaced(s) ==
  [i \in 1..Len(s) |-> IF s[i] \in {CR, LF, TAB} THEN SP ELSE s[i]]

\* C12, for the resource table: when save() has just returned, every stored
\* row has the 8 columns of the header, and each column holds the field of
\* the record it was written from with every CR, LF and tab replaced by one
\* space.
C12_SanitizedOnSave ==
  (pc = "idle" /\ result.kind \in {"fetch", "save"}) =>
    LET rows == RowsOf(table)
    IN /\ Len(rows) = Len(entries)
       /\ \A i \in 1..Len(rows) :
            /\ Len(rows[i]) = Len(HEADER)
            /\ rows[i][1] = EachReplaced(entries[i].url)
            /\ rows[i][3] = EachReplaced(entries[i].filename)
            /\ rows[i][6] = EachReplaced(entries[i].content_type)
            /\ rows[i][8] = EachReplaced(entries[i].error)


\* The step is the one in which wait_for_domain_throttle runs for a url
\* with a domain.
ThrottleStep == pc = "throttle" /\ pc' = "fetch" /\ info.domain # <<>>

\* The step calls add() for a record of this domain.
AddStep(domain) ==
  \/ pc \in {"fetch", "write"} /\ pc' = "save" /\ info'.domain = domain
  \/ call'.op = "add" /\ ops' = ops + 1 /\ Netloc(call'.url) = domain

\* C13: wait_for_domain_throttle(domain, s) returns at once when the domain
\* has no recorded access or the last one is at least s seconds old, and
\* otherwise after exactly the remaining s - elapsed seconds; add() records
\* the time of the access; so every fetch attempt for a url with a domain
\* starts at least throttle_seconds after the last add() for that domain.
C13_Throttle ==
  [][/\ ThrottleStep =>
          LET d == info.domain
              s == call.throttle
          IN IF d \notin DOMAIN domain_access_times
                  \/ now - domain_access_times[d] >= s
               THEN now' = now
               ELSE /\ now' - now = s - (now - domain_access_times[d])
                    /\ now' >= domain_access_times[d] + s
     /\ \A d \in {Netloc(u) : u \in Urls} :
          IF AddStep(d)
            THEN d \in DOMAIN domain_access_times'
                 /\ domain_access_times'[d] = now'
            ELSE call'.op = "Cache"
                 \/ /\ d \in DOMAIN domain_access_times
                          <=> d \in DOMAIN domain_access_times'
                    /\ d \in DOMAIN domain_access_times =>
                          domain_access_times'[d] = domain_access_times[d]]_vars

\* A fetch is about to start right after a record of its domain was added:
\* the call waited the whole throttle_seconds.
C13_Witness ==
  /\ pc = "fetch"
  /\ ops = 2
  /\ call.throttle = ThrottleSeconds
  /\ info.domain \in DOMAIN domain_access_times
  /\ now = domain_access_times[info.domain] + ThrottleSeconds


\* load() has just run on the table as it is now.
JustLoaded == pc = "idle" /\ (ops = 0 \/ call.op \in {"load", "Cache"})

\* The rows TSVManager.load reads from the table: the lines after the
\* header, stripped, the empty ones left out.
ReadableRows == TSVLoad(table).data

\* No row after row k that load() accepts is for the same url.
LastForUrl(rows, k) ==
  \A j \in (k + 1)..Len(rows) : Len(rows[j]) >= 7 => rows[j][1] # rows[k][1]

\* C14: load() of a table with a row of only 7 columns yields, for that
\* row's url, a record whose error is empty and whose other seven fields
\* are the row's (unless a later row replaces it).
C14_LegacyRow ==
  JustLoaded =>
    LET rows == ReadableRows
    IN \A k \in 1..Len(rows) :
         (Len(rows[k]) = 7 /\ LastForUrl(rows, k)) =>
           /\ HasRecord(entries, rows[k][1])
           /\ RowHolds(rows[k], RecordOf(entries, rows[k][1]))
           /\ RecordOf(entries, rows[k][1]).error = <<>>

\* A fresh Cache has loaded the 7-column row of the legacy table.
C14_Witness ==
  /\ call.op = "Cache"
  /\ table = LegacyTable
  /\ HasRecord(entries, U1)
  /\ RecordOf(entries, U1).filename = F1
  /\ RecordOf(entries, U1).error = <<>>

\* The record a row of at least 7 columns is parsed to.
RowGives(cols, r) ==
  /\ RowHolds(cols, r)
  /\ r.error = (IF Len(cols) >= 8 THEN cols[8] ELSE <<>>)

\* C15: load() of a table that mixes rows of at least 7 columns with
\* shorter ones yields exactly the records of the former, one for each
\* url, the last row of a url winning; the shorter rows give nothing.
C15_MalformedRowsSkipped ==
  JustLoaded =>
    LET rows == ReadableRows
    IN /\ UniqueUrls(entries)
       /\ \A k \in 1..Len(rows) :
            Len(rows[k]) >= 7 => HasRecord(entries, rows[k][1])
       /\ \A i \in 1..Len(entries) :
            \E k \in 1..Len(rows) :
              /\ Len(rows[k]) >= 7
              /\ LastForUrl(rows, k)
              /\ RowGives(rows[k], entries[i])

\* A fresh Cache has loaded a table with a row that is too short.
C15_Witness ==
  /\ call.op = "Cache"
  /\ \E k \in 1..Len(ReadableRows) : Len(ReadableRows[k]) < 7
  /\ Len(entries) = 2


\* C16: calculate_tag_match_weight(a, b) is 0.0 when a or b is empty, both
\* empty included; otherwise 1.0 when a = b, len(shorter)/len(longer) when
\* one is a substring of the other, and 0.0 in every other case.
C16_TagMatchWeight ==
  answer.op = "match" =>
    LET a == answer.a
        b == answer.b
    IN answer.weight =
         (IF a = <<>> \/ b = <<>> THEN Zero
          ELSE IF a = b THEN One
          ELSE IF Contains(b, a) THEN Frac(Len(a), Len(b))
          ELSE IF Contains(a, b) THEN Frac(Len(b), Len(a))
          ELSE Zero)

\* The sum of the first n values of f.
RECURSIVE SumTo(_, _)
SumTo(f, n) == IF n = 0 THEN Zero ELSE FAdd(SumTo(f, n - 1), f[n])

\* The sum of the match weights of all pairs (u[i], t[j]).
PairSum(u, t) ==
  LET n == Len(t)
      f == [p \in 1..(Len(u) * n) |->
              calculate_tag_match_weight(u[((p - 1) \div n) + 1], t[((p - 1) % n) + 1])]
  IN SumTo(f, Len(u) * n)

\* The weight of a theme: the map's for its name, 1.0 when it has none.
OverrideOrOne(theme_data, tw) ==
  IF ~tw.none /\ theme_data.name \in DOMAIN tw.map THEN tw.map[theme_data.name] ELSE One

\* The score of the resource against the k-th theme.
WeightedScore(k) ==
  FMul(OverrideOrOne(themes[k], theme_weights), PairSum(UrlTags, themes[k].tags))

\* classify_url_to_theme has just returned a theme.
Classified == answer.op = "classify" /\ answer.theme # None

\* C17: the score of a resource against a theme is the theme's weight times
\* the sum of the match weights of all pairs of a resource tag and a theme
\* tag, every occurrence counted; the score returned is that of the theme
\* returned.
C17_ScoreIsWeightedPairSum ==
  /\ \A k \in 1..Len(themes) :
       ApplyWeight(ThemeScore(UrlTags, themes[k]), themes[k], theme_weights)
         = WeightedScore(k)
  /\ Classified =>
       \E k \in 1..Len(themes) :
         themes[k].name = answer.theme /\ answer.score = WeightedScore(k)

\* Two exact matches at weight 1.0 were scored 2.0.
C17_Witness ==
  /\ Classified
  /\ answer.score = Frac(2, 1)
  /\ theme_weights.none
  /\ \E k \in 1..Len(themes) :
       /\ themes[k].name = answer.theme
       /\ Len(UrlTags) = 2
       /\ UrlTags[1] # UrlTags[2]
       /\ \A i \in 1..2 : UrlTags[i] # <<>>
       /\ \A i \in 1..2 : \E j \in 1..Len(themes[k].tags) : themes[k].tags[j] = UrlTags[i]


\* The scores of the themes, in the order of the list.
Scores == [k \in 1..Len(themes) |-> WeightedScore(k)]

\* The first place of the greatest score of S if that is above 0, else 0.
FirstGreatest(S) ==
  IF \A k \in 1..Len(S) : ~FGt(S[k], Zero) THEN 0
  ELSE CHOOSE k \in 1..Len(S) :
         /\ \A j \in 1..Len(S) : ~FGt(S[j], S[k])
         /\ \A j \in 1..(k - 1) : FGt(S[k], S[j])

\* The themes in the order p, a permutation of the places of the list.
Permuted(p) == [k \in 1..Len(themes) |-> themes[p[k]]]

\* C18: classify_url_to_theme returns the theme with the greatest score,
\* the first of the list among those that share it, and that score; under
\* any permutation of the theme list the score stays and the theme is one
\* of those that share the greatest score.
C18_FirstOfGreatest ==
  answer.op = "classify" =>
    LET k == FirstGreatest(Scores)
    IN /\ k # 0 => answer.theme = themes[k].name /\ answer.score = Scores[k]
       /\ k # 0 =>
            \A p \in Permutations(1..Len(themes)) :
              LET c == classify_url_to_theme(url_summary, Permuted(p), theme_weights)
              IN /\ c.score = answer.score
                 /\ \E j \in 1..Len(themes) :
                      /\ themes[j].name = c.theme
                      /\ Scores[j] = answer.score
                 /\ c.theme = themes[p[FirstGreatest([i \in 1..Len(themes) |->
                                                         Scores[p[i]]])]].name

\* Two themes of different names shared the greatest score; the first won.
C18_Witness ==
  /\ Classified
  /\ \E j, k \in 1..Len(themes) :
       /\ j < k
       /\ themes[j].name # themes[k].name
       /\ Scores[j] = answer.score
       /\ Scores[k] = answer.score
       /\ answer.theme = themes[j].name


\* The weight of a theme as C19 states it: the map's for its name, else the
\* theme's own, else 1.0.
StatedWeight(theme_data, tw) ==
  IF ~tw.none /\ theme_data.name \in DOMAIN tw.map THEN tw.map[theme_data.name]
  ELSE IF theme_data.has_weight THEN theme_data.weight
  ELSE One

\* The sum of the match weights of the resource against the k-th theme.
Raw(k) == PairSum(UrlTags, themes[k].tags)

Leads(k) == \A j \in 1..Len(themes) : j # k => FGt(Scores[k], Scores[j])

C20_NeverErrors ==
  answer.op = "classify" =>
    /\ answer.score.d # 0
    /\ ~FGt(Zero, answer.score)
    /\ IF UrlTags = <<>> \/ \A k \in 1..Len(themes) : ~FGt(Scores[k], Zero)
         THEN answer.theme = None /\ answer.score = Zero
         ELSE answer.theme # None /\ FGt(answer.score, Zero)

\* A resource whose tags match only a theme of negative weight was left
\* unclassified with score 0.
C20_Witness ==
  /\ answer.op = "classify"
  /\ answer.theme = None
  /\ answer.score = Zero
  /\ \E k \in 1..Len(themes) : FGt(Raw(k), Zero) /\ FGt(Zero, Scores[k])


\* classify_url_to_theme or classify_all_urls has just returned.
Answered == answer.op \in {"classify", "classify_all"}

\* C21 as stated: a resource one of whose tags has a nonzero match weight
\* against a tag of a theme gets a theme, and is in the result of
\* classify_all_urls, whatever the weight map.
C21_NullOnlyWithoutOverlap ==
  (Answered /\ \E k \in 1..Len(themes) : FGt(Raw(k), Zero)) =>
    /\ answer.theme # None
    /\ answer.op = "classify_all" => answer.listed

\* The k-th theme has a positive weight and a tag that matches the resource.
PositiveOverlap(k) ==
  FGt(Raw(k), Zero) /\ FGt(OverrideOrOne(themes[k], theme_weights), Zero)

\* C21, amended: a resource gets no theme exactly when no theme of positive
\* weight has a tag with a nonzero match weight against one of its tags; it
\* is absent from the result of classify_all_urls exactly when it gets no
\* theme or the theme it gets has the empty name.
C21_NullOnlyWithoutPositiveOverlap ==
  Answered =>
    /\ answer.theme = None <=> \A k \in 1..Len(themes) : ~PositiveOverlap(k)
    /\ answer.op = "classify_all" =>
         (answer.listed <=> (answer.theme # None /\ answer.theme # ""))

\* classify_all_urls listed a resource under a theme of overridden weight.
C21_Witness ==
  /\ answer.op = "classify_all"
  /\ answer.listed
  /\ \E k \in 1..Len(themes) :
       /\ themes[k].name = answer.theme
       /\ PositiveOverlap(k)
       /\ OverrideOrOne(themes[k], theme_weights) # One


\* group_urls_by_tag_in_theme has returned.
Grouped == tag_groups.op = "group"

\* The tags of the url of the i-th pair.
TagsOf(i) == DictGet(url_summaries, urls_with_scores[i].url, <<>>)

\* The resource tag a and the theme tag b have a nonzero match weight.
Matches(a, b) == calculate_tag_match_weight(a, b) # Zero

\* The m-th tag of the i-th pair's url matches some theme tag.
OwnTagMatches(i, m) ==
  \E j \in 1..Len(theme_tag_list) : Matches(TagsOf(i)[m], theme_tag_list[j])

\* The theme tag the i-th pair is to be bucketed under: the first theme tag
\* that matches the first of the url's tags that matches any.
BucketKey(i) ==
  LET m == CHOOSE m \in 1..Len(TagsOf(i)) :
             OwnTagMatches(i, m) /\ \A n \in 1..(m - 1) : ~OwnTagMatches(i, n)
      j == CHOOSE j \in 1..Len(theme_tag_list) :
             /\ Matches(TagsOf(i)[m], theme_tag_list[j])
             /\ \A k \in 1..(j - 1) : ~Matches(TagsOf(i)[m], theme_tag_list[k])
  IN theme_tag_list[j]

\* The bucket of the result under key, empty when there is none.
Bucket(key) == DictGet(tag_groups.dict, key, <<>>)
InBucket(pair, key) == \E n \in 1..Len(Bucket(key)) : Bucket(key)[n] = pair

\* C22: every resource is in the bucket of the first theme tag that matches
\* its first matching own tag, and a resource that matches nothing is in
\* the bucket kept for such resources.
C22_FirstMatchingTag ==
  Grouped =>
    \A i \in 1..Len(urls_with_scores) :
      LET pair == urls_with_scores[i]
      IN IF \E m \in 1..Len(TagsOf(i)) : OwnTagMatches(i, m)
           THEN InBucket(pair, BucketKey(i))
           ELSE InBucket(pair, UNTAGGED)

\* How many times x occurs in the sequence s.
Count(s, x) == Cardinality({n \in 1..Len(s) : s[n] = x})

RECURSIVE SumOver(_, _)
SumOver(d, x) ==
  IF d = <<>> THEN 0 ELSE Count(Head(d).value, x) + SumOver(Tail(d), x)

RECURSIVE TotalSize(_)
TotalSize(d) == IF d = <<>> THEN 0 ELSE Len(Head(d).value) + TotalSize(Tail(d))

\* s is t with some elements left out.
RECURSIVE IsSubsequence(_, _)
IsSubsequence(s, t) ==
  IF s = <<>> THEN TRUE
  ELSE IF t = <<>> THEN FALSE
  ELSE IF Head(s) = Head(t) THEN IsSubsequence(Tail(s), Tail(t))
  ELSE IsSubsequence(s, Tail(t))

\* C29: the buckets partition the input; every pair is in the buckets as
\* many times as in the input, the sizes add up to the input's length, and
\* each bucket keeps the input's order.
C29_Partition ==
  Grouped =>
    LET d == tag_groups.dict
    IN /\ TotalSize(d) = Len(urls_with_scores)
       /\ \A p \in PairPool : SumOver(d, p) = Count(urls_with_scores, p)
       /\ \A n \in 1..Len(d) : IsSubsequence(d[n].value, urls_with_scores)

\* generate_markdown_report has returned; Text is what it returned.
Reported == lines.op = "report"
Text == lines.text

\* The heading of the section the i-th line is in.
HeadingOf(i) ==
  Text[CHOOSE h \in 1..i :
         /\ Text[h].kind \in {"theme", "unclassified"}
         /\ \A g \in (h + 1)..i : Text[g].kind \notin {"theme", "unclassified"}]

\* The i-th line is a list item of a theme's section, of the last section.
InTheme(i) ==
  /\ Text[i].kind = "url"
  /\ \E h \in 1..i : Text[h].kind \in {"theme", "unclassified"}
  /\ HeadingOf(i).kind = "theme"
InUnclassified(i) ==
  /\ Text[i].kind = "url"
  /\ \E h \in 1..i : Text[h].kind \in {"theme", "unclassified"}
  /\ HeadingOf(i).kind = "unclassified"

\* What classify_all_urls returned for url; how many urls went to the theme.
ClassificationOf(url) == DictGet(url_classifications.dict, url, Unclassified)
ClassifiedTo(theme) ==
  Cardinality({n \in 1..Len(url_classifications.dict) :
                 url_classifications.dict[n].value.theme = theme})

\* The place of url among the urls in ascending order.
Rank(url) == CHOOSE r \in 1..Len(UrlsInOrder) : UrlsInOrder[r] = url

\* C25: the sections of the themes come in descending order of the number
\* of resources of the theme, the items of a flat listing in descending order
\* of score, and the items of the last section in ascending order of url.
C25_Ordering ==
  Reported =>
    \A i, j \in 1..Len(Text) :
      i < j =>
        /\ (Text[i].kind = "theme" /\ Text[j].kind = "theme") =>
             ClassifiedTo(Text[i].theme) >= ClassifiedTo(Text[j].theme)
        /\ (/\ InTheme(i) /\ InTheme(j)
            /\ HeadingOf(i) = HeadingOf(j)
            /\ HeadingOf(i).theme \notin theme_subsections) =>
             ~FGt(ClassificationOf(Text[j].url).score, ClassificationOf(Text[i].url).score)
        /\ (InUnclassified(i) /\ InUnclassified(j)) => Rank(Text[i].url) < Rank(Text[j].url)

\* The theme met second has more resources and comes first, and in its flat
\* listing a resource met later stands before one of lower score.
C25_Witness ==
  /\ Reported
  /\ Len(url_classifications.dict) = 3
  /\ \E i, j \in 1..Len(Text) :
       /\ i < j
       /\ Text[i].kind = "theme" /\ Text[j].kind = "theme"
       /\ url_classifications.dict[1].value.theme = Text[j].theme
       /\ Text[i].n > Text[j].n
       /\ Text[i].theme \notin theme_subsections
       /\ Text[i + 1].kind = "url" /\ Text[i + 2].kind = "url"
       /\ Text[i + 1].url = url_classifications.dict[3].key
       /\ Text[i + 2].url = url_classifications.dict[2].key
       /\ FGt(ClassificationOf(Text[i + 1].url).score, ClassificationOf(Text[i + 2].url).score)

\* How many list items the report has for url.
Listed(url) == Cardinality({i \in 1..Len(Text) : Text[i].kind = "url" /\ Text[i].url = url})

\* C30: every url of url_summaries is listed exactly once, a classified one
\* in the section of its theme and an unclassified one in the last section,
\* and the counts of classified and unclassified urls add up to the total.
C30_ListedOnce ==
  Reported =>
    /\ \A n \in 1..Len(url_summaries) : Listed(url_summaries[n].key) = 1
    /\ \A i \in 1..Len(Text) :
         Text[i].kind = "url" =>
           IF DictHas(url_classifications.dict, Text[i].url)
             THEN InTheme(i) /\ HeadingOf(i).theme = ClassificationOf(Text[i].url).theme
             ELSE InUnclassified(i)
    /\ Text[2].n + Text[3].n = Text[1].n

\* get_summary_path has returned.
PathAsked == summary_path.op = "get_summary_path"

\* C24: get_summary_path returns None exactly when the file name is empty,
\* and otherwise the path of '<stem>.json' in the summary directory, where
\* the file name is '<stem>' or '<stem>.<suffix>' behind its directories.
C24_SummaryPath ==
  PathAsked =>
    /\ summary_path.none <=> url_info.filename = <<>>
    /\ ~summary_path.none =>
         /\ summary_path.dir = "summary"
         /\ summary_path.name = Stem(url_info.filename) \o <<".json">>
         /\ summary_dir

\* A path was returned for a file name with a suffix.
C24_Witness ==
  /\ PathAsked
  /\ url_info.filename = <<"h", ".", "h">>
  /\ summary_path.name = <<"h", ".json">>

\* The (key, value) pairs of a dict.
ItemsOf(d) == {<<d[n].key, d[n].value>> : n \in 1..Len(d)}

\* C23: what a fresh TranslationCache loads from the terms.tsv that save()
\* wrote is the map that was saved, key for key and value for value.
C23_TermRoundTrip ==
  terms_saved.saved =>
    ItemsOf(LoadTranslations(TSVLoad(terms).data, <<>>)) = ItemsOf(terms_saved.map)

\* fetch_urls is in its loop or has returned.
InBatch == batch.phase \in {"loop", "returned"}

\* C26: with force=True no call of fetch_and_cache_url returns the cached
\* record without invoking the fetch.
C26_ForceRefetches ==
  (InBatch /\ batch.force /\ call.op = "fetch_and_cache_url") => result.kind # "skip"

\* The table on disk has a record for url whose status is success or error.
Recorded(url) ==
  LET es == Loaded(table).entries
  IN \E i \in 1..Len(es) : es[i].url = url /\ es[i].status \in {SUCCESS, ERROR}

\* C27: when fetch_urls returns, every url of its list has a record in the
\* table on disk with status success or error, whichever fetches failed.
C27_BatchCompletes ==
  batch.phase = "returned" =>
    \A k \in 1..Len(batch.urls) : Recorded(batch.urls[k])

\* A batch of two urls has returned; the fetch of the first one failed and
\* the fetch of the second one succeeded.
C27_Witness ==
  /\ batch.phase = "returned"
  /\ Len(batch.urls) = 2
  /\ batch.urls[1] # batch.urls[2]
  /\ batch.n = 2
  /\ LET es == Loaded(table).entries
     IN /\ es[IndexOf(es, batch.urls[1])].status = ERROR
        /\ es[IndexOf(es, batch.urls[2])].status = SUCCESS

\* The rows of a table file that say success.
SuccessRows(f) ==
  {k \in 1..Len(RowsOf(f)) : Len(RowsOf(f)[k]) >= 7 /\ RowsOf(f)[k][5] = SUCCESS}

\* C28: every row with status success that save() has just written names a
\* content file, and the body of that file was written whole before the row
\* was.
C28_SuccessRowHasContent ==
  pc \in InReplace =>
    \A k \in SuccessRows(temp) :
      /\ RowsOf(temp)[k][3] # <<>>
      /\ RowsOf(temp)[k][3] \in written


\* A new process, after a crash, has fetched a url and its save() has written
\* the row of the record, with the file it names written whole.
C28_Witness ==
  /\ pc \in InReplace
  /\ pending = CacheResult("fetch", TRUE, TRUE)
  /\ ops = MaxOps
  /\ \E k \in SuccessRows(temp) :
       /\ RowsOf(temp)[k][1] = info.url
       /\ RowsOf(temp)[k][3] = info.filename
       /\ info.filename \in written
       /\ info.filename \in content

====
